---- MODULE Spec2Model ----
(***************************************************************************)
(* Model of the LMA bus tracker: the App module (polling coordinator and   *)
(* arrival reconciliation), the parts of UI, Storage and API it drives.    *)
(*                                                                         *)
(* Conventions                                                             *)
(*  - An upstream id is a pair [t, s]: its JavaScript type ("num"/"str")   *)
(*    and its decimal text. String(id) is id.s; === compares both fields.  *)
(*  - Coordinates are integers on a local planar grid of 100 m cells and   *)
(*    getDistanceKm is the rounded-down planar distance in 100 m units.    *)
(*  - Date.now() fields (timestamp) are not modelled.                      *)
(*  - The destination stop is not modelled: no operation of the polling    *)
(*    coordinator reads it.                                                *)
(*  - A text that is parsed (a coordinate, a speed, a points string) is    *)
(*    the sequence of its characters. The coordinates of the records used  *)
(*    all parse; Coordinate gives 0 for one that does not (NaN).           *)
(*                                                                         *)
(* Specifications                                                          *)
(*  - Spec: the App, from page load on.                                    *)
(*  - SpecHungLoad: Spec with the browser's scheduling as fairness, the    *)
(*    fetches that loadInitialData awaits being free never to settle.      *)
(*  - SpecMap: overlapping bus refreshes and the map's markers.            *)
(*  - SpecArrivals: refreshArrivals against every upstream answer.         *)
(*  - SpecSettings: Storage and the settings panel.                        *)
(*  - SpecETA, SpecNorm, SpecParse, SpecProxy: calculateETAs, the three    *)
(*    normalising calls, parseRoutePoints and postRequest on their own;    *)
(*    SpecProxySettling: SpecProxy when every fetch settles.               *)
(***************************************************************************)
EXTENDS Integers, Sequences, FiniteSets, Bags, TLC

(***************************************************************************)
(* Bounds                                                                  *)
(***************************************************************************)
MaxInflight == 1
MaxPendingBus == 1
MaxBuses == 11        \* longest bus list handed to calculateETAs
MaxEntries == 3       \* most entries in a response's container
MaxChars == 7         \* longest points string handed to parseRoutePoints
MaxRequests == 3      \* postRequest calls made from outside
MaxOverlap == 2       \* refreshBuses invocations awaiting their fetch at once

(***************************************************************************)
(* Ids, upstream data                                                      *)
(***************************************************************************)
Num(s) == [t |-> "num", s |-> s]
Str(s) == [t |-> "str", s |-> s]
String(id) == id.s

NoId == [t |-> "null", s |-> ""]
NoStop == [id |-> NoId, name |-> "", latitude |-> 0, longitude |-> 0, routeId |-> NoId]

DefaultColor == "#4a90d9"

\* Routes as getRoutes returns them (id, name, shortName, color).
UpstreamRoutes ==
    << [id |-> Num("5"), name |-> "Red Line", shortName |-> "R", color |-> "#ff0000"],
       [id |-> Num("7"), name |-> "Blue Line", shortName |-> "Blue Line", color |-> "#0000ff"] >>

\* Stops as getStops returns them.
UpstreamStops ==
    << [id |-> Num("1"), name |-> "HMS", latitude |-> 0, longitude |-> 0, routeId |-> Num("5")],
       [id |-> Num("2"), name |-> "Vanderbilt", latitude |-> 10, longitude |-> 4, routeId |-> Num("7")] >>

\* Bus records as getBuses returns them. The second bus carries its route
\* id as a string while the route list carries it as a number.
BusA == [id |-> Num("11"), busName |-> "Bus 11", routeId |-> Num("5"),
         latitude |-> 3, longitude |-> 4, speed |-> 0]
BusB == [id |-> Num("12"), busName |-> "Bus 12", routeId |-> Str("7"),
         latitude |-> 9, longitude |-> 2, speed |-> 25]

\* Upstream JSON. A scalar field is an id-like pair (NoId when the field is
\* missing), a numeric text field is the sequence of its characters (<<>> when
\* missing), JSON null is Null. A response is null or an object whose
\* container (all, stops, buses) is missing, an array or a keyed map; the
\* entries of a container, in the order for..in / map visits them, are records,
\* arrays of records, or null.
Null == [null |-> TRUE]
IsNull(x) == "null" \in DOMAIN x
Rec(r) == [kind |-> "rec", recs |-> <<r>>]
List(rs) == [kind |-> "list", recs |-> rs]
NullEntry == [kind |-> "null", recs |-> <<>>]
NullResponse == [isNull |-> TRUE, shape |-> "absent", items |-> <<>>]
Response(shape, items) == [isNull |-> FALSE, shape |-> shape, items |-> items]

RawBusA == [busId |-> Num("11"), id |-> NoId, busName |-> "", name |-> "",
            routeId |-> Num("5"), route |-> NoId,
            latitude |-> <<"3">>, longitude |-> <<"4">>, speed |-> <<>>]
RawBusB == [busId |-> NoId, id |-> Num("12"), busName |-> "Bus 12", name |-> "",
            routeId |-> NoId, route |-> Str("7"),
            latitude |-> <<"9">>, longitude |-> <<"2">>, speed |-> <<"2", "5">>]
RawRouteR == [myid |-> Num("5"), id |-> Num("50"), name |-> "Red Line", longName |-> "",
              shortName |-> "R", color |-> "#ff0000", points |-> <<"1", ",", "2">>]
RawRouteB == [myid |-> NoId, id |-> Num("7"), name |-> "", longName |-> "Blue Line",
              shortName |-> "", color |-> "", points |-> <<>>]
RawStopH == [id |-> Num("1"), stopId |-> NoId, name |-> "HMS",
             latitude |-> <<"0">>, longitude |-> <<"0">>, routeId |-> Num("5")]
RawStopV == [id |-> NoId, stopId |-> Num("2"), name |-> "",
             latitude |-> <<"1", "0">>, longitude |-> <<"4">>, routeId |-> Num("7")]

\* The getBuses responses a refresh can meet: a flat array, and a keyed map
\* holding one single record.
BusPayloads == { Response("array", <<Rec(RawBusA), Rec(RawBusB)>>),
                 Response("map", <<Rec(RawBusB)>>) }

\* Further bus records: a slow bus of a route the route list does not hold, and
\* a bus reporting a negative speed, its route id a string.
BusC == [id |-> Num("13"), busName |-> "Bus 13", routeId |-> Num("9"),
         latitude |-> 40, longitude |-> 30, speed |-> 5]
BusD == [id |-> Num("14"), busName |-> "Bus 14", routeId |-> Str("5"),
         latitude |-> 0, longitude |-> 30, speed |-> 0 - 3]

\* Bus 11 once it has moved on to the other route.
BusA2 == [BusA EXCEPT !.routeId = Num("7"), !.latitude = 5]

\* The lists API.getBuses() resolves with when overlapping refreshes and the
\* map are studied: empty, buses leaving and joining, a bus changing its
\* route from one list to the next, one bus listed twice.
MapFleets == { <<>>, <<BusA, BusB>>, <<BusB>>, <<BusC, BusD>>, <<BusA2, BusC>>, <<BusA, BusA2>> }

\* The arguments calculateETAs is studied with: the records a bus list is made
\* of, and the route filters.
Fleets == { <<BusA, BusB>>, <<BusC, BusD>>, <<BusB, BusC>> }
RouteFilters == { <<>>, <<"5">>, <<"7", "9">> }

\* Arrival records as getStopArrivals maps them from a response.
ArrA == [busId |-> Num("11"), busName |-> "Bus 11", routeId |-> Str("5"), routeName |-> "", eta |-> 4]
ArrB == [busId |-> Num("12"), busName |-> "Bus 12", routeId |-> Num("7"), routeName |-> "Blue Up", eta |-> 2]
ArrC == [busId |-> Num("13"), busName |-> "Bus 13", routeId |-> Num("9"), routeName |-> "", eta |-> 9]

\* What one getStopArrivals request can meet:
\*   kind "throw": postRequest throws (every proxy failed, or JSON.parse failed)
\*   kind "null" : postRequest returns null (empty body)
\*   kind "data" : a response whose arrivals container holds `list`
ArrivalOutcomes ==
    { [kind |-> "throw", list |-> <<>>],
      [kind |-> "null", list |-> <<>>],
      [kind |-> "data", list |-> <<>>],
      [kind |-> "data", list |-> <<ArrA, ArrB, ArrC>>] }

\* Persisted settings a session can start with.
StoredSettings ==
    { [selectedRoutes |-> <<>>, defaultSource |-> ""],
      [selectedRoutes |-> <<"5">>, defaultSource |-> "1"] }

(***************************************************************************)
(* Storage (js/storage.js)                                                 *)
(***************************************************************************)
VARIABLES
    settings,                \* Storage: the stored settings (selectedRoutes, defaultSource)
    routes, stops, buses,    \* App: the in-memory snapshot
    busRefreshInterval,      \* App: handle of the bus timer, 0 for null
    arrivalsRefreshInterval, \* App: handle of the arrivals timer, 0 for null
    timers,                  \* browser: the running intervals
    phase,                   \* App.init: "loading", "initBuses" (awaiting the first refreshBuses), "running"
    pendingBus,              \* refreshBuses invocations awaiting API.getBuses
    inflight,                \* refreshArrivals invocations awaiting API.getStopArrivals (a bag)
    pendingApplyDefaults,    \* populateStops' setTimeout(.., 0) is scheduled
    pendingAutoShow,         \* init's setTimeout(autoShowArrivals, 200) is scheduled
    currentView,             \* UI: "selection", "details" or "busNav"
    selectedSourceStop,      \* UI: the selected source stop, NoStop for null
    sourceValue,             \* UI: value of the source dropdown
    sourceOptions,           \* UI: option values of the source dropdown
    arrivalsList,            \* UI: content of the arrivals list (loading spinner or pushed items)
    lastRefresh,             \* history: the refresh the last step settled, or the timer fire it was
    leftDetails              \* history: the back button left the details view and no stop was searched or auto-loaded since

\* MapManager
VARIABLES
    visibleRoutes,           \* MapManager: the route filter of the map, <<>> for all visible
    busMarkers,              \* MapManager: bus id -> marker (routeId, busData, whether on the map)
    stopMarkers              \* MapManager: String(stop id) -> marker (routeId, stopData, whether on the map)

\* Calls of the API's pure functions, checked on their own
VARIABLES
    etaBuses, etaStop, etaFilter,   \* calculateETAs: the arguments of the last call
    etaFleet,                       \* calculateETAs: the bus records the lists are drawn from
    etaResult,                      \* calculateETAs: what the last call returned
    normCall,                       \* getRoutes/getStops/getBuses: which of them is called
    normResponse,                   \* the response postRequest gave the last call
    normResult,                     \* what the last call gave its caller: [threw, value]
    routePointsStr,                 \* parseRoutePoints: the argument of the last call
    routePoints,                    \* parseRoutePoints: what the last call returned
    currentProxyIndex,              \* API: index into CORS_PROXIES (counted from 0)
    requests                        \* postRequest: the requests made, each with the proxy of its
                                    \* running attempt, the proxies tried for it, and its state

\* Storage and the settings panel, checked on their own
VARIABLES
    stored,                  \* localStorage: the item under STORAGE_KEY
    panel,                   \* UI: the settings panel (open, route checkboxes, default-source select)
    storageCall              \* history: the last call that wrote the item, and getSettings() before it

appVars == << settings, routes, stops, buses, busRefreshInterval, arrivalsRefreshInterval,
              timers, phase, pendingBus, inflight, pendingApplyDefaults, pendingAutoShow,
              currentView, selectedSourceStop, sourceValue, sourceOptions, arrivalsList,
              lastRefresh, leftDetails >>
etaVars == << etaBuses, etaStop, etaFilter, etaFleet, etaResult >>
normVars == << normCall, normResponse, normResult >>
parseVars == << routePointsStr, routePoints >>
proxyVars == << currentProxyIndex, requests >>
mapVars == << visibleRoutes, busMarkers, stopMarkers >>
storageVars == << stored, panel, storageCall >>
apiVars == << etaVars, normVars, parseVars, proxyVars, storageVars >>
vars == << appVars, mapVars, apiVars >>

defaults == [selectedRoutes |-> <<>>, defaultSource |-> ""]
getSelectedRoutes == settings.selectedRoutes
getDefaultSource == settings.defaultSource

\* Array.prototype.includes on a list of strings
Includes(list, x) == \E i \in 1..Len(list) : list[i] = x

\* Storage.isRouteVisible(routeId)
StorageIsRouteVisible(routeId) ==
    LET selected == getSelectedRoutes
    IN IF Len(selected) = 0 THEN TRUE ELSE Includes(selected, String(routeId))

\* ---- the stored item ----
\* A JSON value is a text, an array of texts or null. The item under
\* STORAGE_KEY is absent (getItem gives null), the empty text, a text
\* JSON.parse rejects, or the text of an object; an object is a function from
\* its keys to values, and JSON.stringify followed by JSON.parse gives back
\* an object of such values as it was.
Text(s) == [t |-> "text", s |-> s, l |-> <<>>]
Array(l) == [t |-> "array", s |-> "", l |-> l]
NullValue == [t |-> "null", s |-> "", l |-> <<>>]
Now == [t |-> "number", s |-> "now", l |-> <<>>]

NoObject == [k \in {} |-> NullValue]
Absent == [kind |-> "absent", obj |-> NoObject]
EmptyText == [kind |-> "empty", obj |-> NoObject]
Unparsable == [kind |-> "garbage", obj |-> NoObject]
Json(obj) == [kind |-> "json", obj |-> obj]

\* { ...a, ...b }
Spread(a, b) == [k \in DOMAIN a \cup DOMAIN b |-> IF k \in DOMAIN b THEN b[k] ELSE a[k]]

storageDefaults ==
    [selectedRoutes |-> Array(<<>>), defaultSource |-> Text(""), defaultDest |-> Text(""),
     lastUpdated |-> NullValue]

\* getSettings(): the defaults overlaid with the parsed item; the defaults when
\* there is no item, it is empty, or JSON.parse throws (caught)
getSettings(item) ==
    IF item.kind = "json" THEN Spread(storageDefaults, item.obj) ELSE storageDefaults

\* saveSettings(upd): [item, ok], the item afterwards and the value returned;
\* throws tells whether localStorage.setItem throws (caught)
saveSettingsReplace(item, upd, throws) ==
    IF throws THEN [item |-> item, ok |-> FALSE]
    ELSE [item |-> Json(Spread(upd, [lastUpdated |-> Now])), ok |-> TRUE]

saveSettings(item, upd, throws) ==
    IF throws THEN [item |-> item, ok |-> FALSE]
    ELSE [item |-> Json(Spread(Spread(getSettings(item), upd), [lastUpdated |-> Now])),
          ok |-> TRUE]

\* clearSettings(): removeItem
clearSettings(item, throws) ==
    IF throws THEN [item |-> item, ok |-> FALSE] ELSE [item |-> Absent, ok |-> TRUE]

\* v || [] and v || '' for a JSON value v
Truthy(v) == v.t = "array" \/ v.t = "number" \/ (v.t = "text" /\ v.s # "")

\* getSelectedRoutes() and getDefaultSource() on an item (an array and a text
\* in every item used here)
selectedRoutesOf(item) ==
    LET v == getSettings(item)["selectedRoutes"] IN IF Truthy(v) THEN v.l ELSE <<>>
defaultSourceOf(item) ==
    LET v == getSettings(item)["defaultSource"] IN IF Truthy(v) THEN v.s ELSE ""

(***************************************************************************)
(* API (js/api.js): pure parts                                             *)
(***************************************************************************)
Max(a, b) == IF a >= b THEN a ELSE b
\* Math.sqrt rounded down: the tens of the root first, then the root itself
ISqrt(n) ==
    LET tens == CHOOSE t \in 0..n : 100 * (t + 1) * (t + 1) > n
    IN CHOOSE r \in (10 * tens)..(10 * tens + 9) : r * r <= n /\ (r + 1) * (r + 1) > n

\* distance in 100 m units between two grid points
getDistanceKm(lat1, lon1, lat2, lon2) ==
    ISqrt((lat2 - lat1) * (lat2 - lat1) + (lon2 - lon1) * (lon2 - lon1))

\* avgSpeed in 0.1 km/h: bus.speed > 0 ? Math.max(bus.speed * 1.6, 15) : 20
avgSpeedNoFloor(bus) == IF bus.speed > 0 THEN bus.speed * 16 ELSE 200

avgSpeed(bus) == IF bus.speed > 0 THEN Max(bus.speed * 16, 150) ELSE 200

\* Math.round((distance / avgSpeed) * 60), distance in 100 m, speed in 0.1 km/h
etaMinutes(distance, speed10) == (2 * distance * 60 + speed10) \div (2 * speed10)

\* routeMap.get(id) after routes.forEach(r => routeMap.set(r.id, r)):
\* the last route whose id is the same value of the same type; 0 when absent
routeMapIndex(rts, id) ==
    LET hits == { i \in 1..Len(rts) : rts[i].id = id }
    IN IF hits = {} THEN 0 ELSE CHOOSE i \in hits : \A j \in hits : j <= i

\* Array.prototype.find with String(r.id) === String(id): index of the first hit, 0 when absent
findRouteIndexStrict(rts, id) ==
    LET hits == { i \in 1..Len(rts) : rts[i].id = id }
    IN IF hits = {} THEN 0 ELSE CHOOSE i \in hits : \A j \in hits : i <= j

findRouteIndex(rts, id) ==
    LET hits == { i \in 1..Len(rts) : String(rts[i].id) = String(id) }
    IN IF hits = {} THEN 0 ELSE CHOOSE i \in hits : \A j \in hits : i <= j

\* MapManager.updateBuses: the colour of a bus marker, routeColors.get(bus.routeId)
\* after routes.forEach(route => routeColors.set(route.id, route.color))
busMarkerColor(rts, bus) ==
    LET ri == routeMapIndex(rts, bus.routeId)
    IN IF ri # 0 /\ rts[ri].color # "" THEN rts[ri].color ELSE DefaultColor

\* route.shortName || route.name
shortOrName(r) == IF r.shortName # "" THEN r.shortName ELSE r.name

etaOfBus(bus, stop, rts) ==
    LET distance == getDistanceKm(bus.latitude, bus.longitude, stop.latitude, stop.longitude)
        ri == routeMapIndex(rts, bus.routeId)
    IN [busId |-> bus.id,
        busName |-> bus.busName,
        routeId |-> bus.routeId,
        routeName |-> IF ri # 0 THEN shortOrName(rts[ri]) ELSE "Route " \o String(bus.routeId),
        routeColor |-> IF ri # 0 THEN rts[ri].color ELSE DefaultColor,
        eta |-> etaMinutes(distance, avgSpeed(bus)),
        distance |-> distance,
        speed |-> bus.speed]

\* stable insertion of x into a list sorted by eta (Array.prototype.sort is stable)
RECURSIVE InsertByEta(_, _)
InsertByEta(x, sorted) ==
    IF sorted = <<>> THEN <<x>>
    ELSE IF x.eta < Head(sorted).eta THEN <<x>> \o sorted
    ELSE <<Head(sorted)>> \o InsertByEta(x, Tail(sorted))

SortByEtaKeepOrder(seq) == seq

RECURSIVE SortByEta(_)
SortByEta(seq) ==
    IF seq = <<>> THEN <<>>
    ELSE InsertByEta(seq[Len(seq)], SortByEta(SubSeq(seq, 1, Len(seq) - 1)))

Slice10FromEnd(seq) == SubSeq(seq, IF Len(seq) < 10 THEN 1 ELSE Len(seq) - 9, Len(seq))

Slice10(seq) == SubSeq(seq, 1, IF Len(seq) < 10 THEN Len(seq) ELSE 10)

\* the buses calculateETAs keeps: all when the filter is null or empty (both
\* are <<>> here), else those whose String(routeId) the filter includes
filteredBusesKeepAll(bs, filterRouteIds) == bs

filteredBuses(bs, filterRouteIds) ==
    LET keep(bus) == Includes(filterRouteIds, String(bus.routeId))
    IN IF Len(filterRouteIds) > 0 THEN SelectSeq(bs, keep) ELSE bs

calculateETAs(bs, stop, rts, filterRouteIds) ==
    LET kept == filteredBuses(bs, filterRouteIds)
        mapped == [i \in 1..Len(kept) |-> etaOfBus(kept[i], stop, rts)]
    IN Slice10(SortByEta(mapped))

\* calculateETAs tabulated over the snapshots, stops, route lists and filters
\* the App calls it with
calculateETAsOf ==
    [bs \in Fleets \cup MapFleets,
     stop \in { UpstreamStops[i] : i \in 1..Len(UpstreamStops) } \cup { NoStop },
     rts \in { <<>>, UpstreamRoutes },
     filterRouteIds \in RouteFilters |-> calculateETAs(bs, stop, rts, filterRouteIds)]

\* getStopArrivals: what the call gives its caller for one upstream outcome.
\* threw is always FALSE: the try/catch around the whole body turns every
\* failure of postRequest or of the mapping into the empty list.
getStopArrivalsRethrow(outcome) ==
    IF outcome.kind = "throw" THEN [threw |-> TRUE, value |-> <<>>]
    ELSE IF outcome.kind = "null" THEN [threw |-> FALSE, value |-> <<>>]
    ELSE [threw |-> FALSE, value |-> outcome.list]

getStopArrivals(outcome) ==
    IF outcome.kind = "throw" THEN [threw |-> FALSE, value |-> <<>>]
    ELSE IF outcome.kind = "null" THEN [threw |-> FALSE, value |-> <<>>]
    ELSE [threw |-> FALSE, value |-> outcome.list]

\* ---- parsing and normalising ----

DigitChars == {"0", "1", "2", "3", "4", "5", "6", "7", "8", "9"}
DigitValue(c) ==
    CASE c = "0" -> 0 [] c = "1" -> 1 [] c = "2" -> 2 [] c = "3" -> 3 [] c = "4" -> 4
      [] c = "5" -> 5 [] c = "6" -> 6 [] c = "7" -> 7 [] c = "8" -> 8 [] c = "9" -> 9

NaN == [nan |-> TRUE, v |-> 0]

\* parseFloat of a text made of digits, "-" and other characters: an optional
\* "-", then the longest run of digits; NaN when that run is empty. (Blanks,
\* "+", ".", exponents and "Infinity" are not in the texts used here.)
RECURSIVE DigitsPrefix(_, _)
DigitsPrefix(chars, acc) ==
    IF chars = <<>> \/ Head(chars) \notin DigitChars THEN acc
    ELSE DigitsPrefix(Tail(chars), Append(acc, Head(chars)))

RECURSIVE DecimalValue(_)
DecimalValue(ds) ==
    IF ds = <<>> THEN 0
    ELSE 10 * DecimalValue(SubSeq(ds, 1, Len(ds) - 1)) + DigitValue(ds[Len(ds)])

parseFloat(chars) ==
    LET neg == chars # <<>> /\ Head(chars) = "-"
        ds == DigitsPrefix(IF neg THEN Tail(chars) ELSE chars, <<>>)
    IN IF ds = <<>> THEN NaN
       ELSE [nan |-> FALSE, v |-> IF neg THEN 0 - DecimalValue(ds) ELSE DecimalValue(ds)]

\* String.prototype.split(','): the parts between the commas
RECURSIVE SplitFrom(_, _, _)
SplitFrom(chars, cur, parts) ==
    IF chars = <<>> THEN Append(parts, cur)
    ELSE IF Head(chars) = "," THEN SplitFrom(Tail(chars), <<>>, Append(parts, cur))
    ELSE SplitFrom(Tail(chars), Append(cur, Head(chars)), parts)

split(chars) == SplitFrom(chars, <<>>, <<>>)

\* the for loop of parseRoutePoints from index i (counted from 1 here)
RECURSIVE parsePairsFromShifting(_, _, _)
parsePairsFromShifting(parts, i, points) ==
    IF ~(i < Len(parts)) THEN points
    ELSE LET lat == parseFloat(parts[i])
             lng == parseFloat(parts[i + 1])
         IN IF ~lat.nan /\ ~lng.nan
            THEN parsePairsFromShifting(parts, i + 2, Append(points, <<lat.v, lng.v>>))
            ELSE parsePairsFromShifting(parts, i + 1, points)

RECURSIVE parsePairsFrom(_, _, _)
parsePairsFrom(parts, i, points) ==
    IF ~(i < Len(parts)) THEN points
    ELSE LET lat == parseFloat(parts[i])
             lng == parseFloat(parts[i + 1])
         IN parsePairsFrom(parts, i + 2,
                           IF ~lat.nan /\ ~lng.nan THEN Append(points, <<lat.v, lng.v>>)
                           ELSE points)

\* parseRoutePoints(pointsStr): pointsStr is [present, chars]; a missing, null
\* or empty string is falsy
parseRoutePoints(pointsStr) ==
    IF ~pointsStr.present \/ pointsStr.chars = <<>> THEN <<>>
    ELSE parsePairsFrom(split(pointsStr.chars), 1, <<>>)

\* a || b on id-like values: a unless it is missing, 0 or ""
Falsy(x) == x = NoId \/ x.s = "" \/ (x.t = "num" /\ x.s = "0")
Or(a, b) == IF Falsy(a) THEN b ELSE a
OrText(a, b) == IF a = "" THEN b ELSE a
IdText(x) == IF x = NoId THEN "undefined" ELSE String(x)
Coordinate(chars) == parseFloat(chars).v

\* the records the three calls map an entry to; an array met where a record is
\* expected has none of the fields read from it
mapRoute(route) ==
    [id |-> Or(route.myid, route.id),
     name |-> OrText(route.name, OrText(route.longName, "Route " \o IdText(route.id))),
     shortName |-> OrText(route.shortName, route.name),
     color |-> OrText(route.color, DefaultColor),
     points |-> parseRoutePoints([present |-> TRUE, chars |-> route.points])]

mapStop(stop) ==
    [id |-> Or(stop.id, stop.stopId),
     name |-> OrText(stop.name, "Stop " \o IdText(stop.id)),
     latitude |-> Coordinate(stop.latitude),
     longitude |-> Coordinate(stop.longitude),
     routeId |-> stop.routeId]

mapBus(bus) ==
    [id |-> Or(bus.busId, bus.id),
     busName |-> OrText(bus.busName, OrText(bus.name, "Bus " \o IdText(Or(bus.busId, bus.id)))),
     routeId |-> Or(bus.routeId, bus.route),
     latitude |-> Coordinate(bus.latitude),
     longitude |-> Coordinate(bus.longitude),
     speed |-> IF parseFloat(bus.speed).nan THEN 0 ELSE parseFloat(bus.speed).v]

\* what reading the fields of an array gives: every field undefined
NoFields == [busId |-> NoId, id |-> NoId, stopId |-> NoId, myid |-> NoId,
             busName |-> "", name |-> "", longName |-> "", shortName |-> "", color |-> "",
             routeId |-> NoId, route |-> NoId,
             latitude |-> <<>>, longitude |-> <<>>, speed |-> <<>>, points |-> <<>>]

\* the element an entry contributes when the container is walked without
\* looking into it: the record, the array (no fields), or null
ElementOf(entry) ==
    IF entry.kind = "rec" THEN entry.recs[1]
    ELSE IF entry.kind = "null" THEN Null
    ELSE NoFields

Elements(items) == [i \in 1..Len(items) |-> ElementOf(items[i])]

\* getBuses' walk over a keyed map: push(...item) for an array, push(item) else
RECURSIVE Flatten(_)
Flatten(items) ==
    IF items = <<>> THEN <<>>
    ELSE (IF Head(items).kind = "list" THEN Head(items).recs
          ELSE <<ElementOf(Head(items))>>) \o Flatten(Tail(items))

\* Array.prototype.map with a callback that reads fields of its argument:
\* a TypeError on a null element
Threw == [threw |-> TRUE, value |-> <<>>]
Returned(v) == [threw |-> FALSE, value |-> v]
HasNull(elems) == \E i \in 1..Len(elems) : IsNull(elems[i])

\* getRoutes on a response: [threw, value]
getRoutes(data) ==
    IF data.isNull THEN Returned(<<>>)
    ELSE IF data.shape = "absent" THEN Returned(<<>>)
    ELSE IF data.shape = "map" THEN Threw      \* routesArray.map is not a function
    ELSE LET routesArray == Elements(data.items)
         IN IF HasNull(routesArray) THEN Threw
            ELSE Returned([i \in 1..Len(routesArray) |-> mapRoute(routesArray[i])])

\* getStops on a response: for..in walks an array as it walks a keyed map
getStops(data) ==
    IF data.isNull \/ data.shape = "absent" THEN Returned(<<>>)
    ELSE LET stopsObj == Elements(data.items)
         IN IF HasNull(stopsObj) THEN Threw
            ELSE Returned([i \in 1..Len(stopsObj) |-> mapStop(stopsObj[i])])

\* getBuses on a response
getBusesNoSpread(data) ==
    IF data.isNull \/ data.shape = "absent" THEN Returned(<<>>)
    ELSE LET busesArray == Elements(data.items)
         IN IF HasNull(busesArray) THEN Threw
            ELSE Returned([i \in 1..Len(busesArray) |-> mapBus(busesArray[i])])

getBuses(data) ==
    IF data.isNull \/ data.shape = "absent" THEN Returned(<<>>)
    ELSE LET busesArray == IF data.shape = "array" THEN Elements(data.items)
                           ELSE Flatten(data.items)
         IN IF HasNull(busesArray) THEN Threw
            ELSE Returned([i \in 1..Len(busesArray) |-> mapBus(busesArray[i])])

(***************************************************************************)
(* App (unnamed/part_000): reconciliation                                  *)
(***************************************************************************)
getRouteFilter == getSelectedRoutes

\* the .filter(..).map(..) of refreshArrivals over the upstream arrivals
enrichArrival(arrival, rts) ==
    LET ri == findRouteIndex(rts, arrival.routeId)
    IN [busId |-> arrival.busId,
        busName |-> arrival.busName,
        routeId |-> arrival.routeId,
        eta |-> arrival.eta,
        routeColor |-> IF ri # 0 THEN rts[ri].color ELSE DefaultColor,
        routeName |-> IF arrival.routeName # "" THEN arrival.routeName
                      ELSE IF ri # 0 THEN shortOrName(rts[ri])
                      ELSE "Route " \o String(arrival.routeId)]

filterAndEnrich(arrivals, rts, selectedRoutes) ==
    LET keep(arrival) == \/ Len(selectedRoutes) = 0
                         \/ Includes(selectedRoutes, String(arrival.routeId))
        kept == SelectSeq(arrivals, keep)
    IN [i \in 1..Len(kept) |-> enrichArrival(kept[i], rts)]

\* refreshArrivals from the point where API.getStopArrivals settles with res:
\* selectedRoutes was read before the await, bs/rts/filterNow are read now.
\* Gives what reaches the UI (pushed, items) and whether an error escapes.
refreshArrivalsNoFallback(res, selectedRoutes, bs, stop, rts, filterNow) ==
    IF res.threw \/ Len(res.value) = 0
    THEN [threw |-> TRUE, pushed |-> FALSE, items |-> <<>>]
    ELSE [threw |-> FALSE, pushed |-> TRUE, items |-> filterAndEnrich(res.value, rts, selectedRoutes)]

refreshArrivalsAlwaysEnrich(res, selectedRoutes, bs, stop, rts, filterNow) ==
    [threw |-> FALSE, pushed |-> TRUE, items |-> filterAndEnrich(res.value, rts, selectedRoutes)]

refreshArrivalsFallbackWhenNoneKept(res, selectedRoutes, bs, stop, rts, filterNow) ==
    IF res.threw
    THEN [threw |-> FALSE, pushed |-> TRUE, items |-> calculateETAsOf[bs, stop, rts, filterNow]]
    ELSE IF Len(filterAndEnrich(res.value, rts, selectedRoutes)) = 0
    THEN [threw |-> FALSE, pushed |-> TRUE, items |-> calculateETAsOf[bs, stop, rts, selectedRoutes]]
    ELSE [threw |-> FALSE, pushed |-> TRUE, items |-> filterAndEnrich(res.value, rts, selectedRoutes)]

refreshArrivals(res, selectedRoutes, bs, stop, rts, filterNow) ==
    IF res.threw
    THEN \* catch: fall back to calculated ETAs with the filter read anew
         [threw |-> FALSE, pushed |-> TRUE, items |-> calculateETAsOf[bs, stop, rts, filterNow]]
    ELSE IF Len(res.value) = 0
    THEN [threw |-> FALSE, pushed |-> TRUE, items |-> calculateETAsOf[bs, stop, rts, selectedRoutes]]
    ELSE [threw |-> FALSE, pushed |-> TRUE, items |-> filterAndEnrich(res.value, rts, selectedRoutes)]

\* the arrivals refreshBuses pushes in the details view
refreshBusesArrivalsNoFilter(bs, source, rts, filteredRoutes) == calculateETAsOf[bs, source, rts, <<>>]
refreshBusesArrivals(bs, source, rts, filteredRoutes) == calculateETAsOf[bs, source, rts, filteredRoutes]

(***************************************************************************)
(* Timers                                                                  *)
(*                                                                         *)
(* `timers` holds the intervals that are running, each with the handle     *)
(* setInterval returned for it and, for an arrivals interval, the stop its *)
(* callback closed over. Handles are only ever compared for equality, so a *)
(* new interval takes the smallest handle that no running interval has.    *)
(***************************************************************************)
newHandle(ts) == CHOOSE h \in 1..(Cardinality(ts) + 1) : \A t \in ts : t.h # h

clearInterval(ts, h) == { t \in ts : t.h # h }

setInterval(ts, kind, stop) == ts \cup { [h |-> newHandle(ts), kind |-> kind, stop |-> stop] }

\* startBusPolling: the running intervals afterwards
startBusPolling(ts, h) ==
    setInterval(IF h # 0 THEN clearInterval(ts, h) ELSE ts, "bus", NoStop)

\* startArrivalsPolling(stop): the running intervals afterwards
startArrivalsPollingNoClear(ts, h, stop) ==
    setInterval(ts, "arrivals", stop)

startArrivalsPolling(ts, h, stop) ==
    setInterval(IF h # 0 THEN clearInterval(ts, h) ELSE ts, "arrivals", stop)

\* the handle of the interval just created by going from ts to ts2
createdHandle(ts, h, ts2) ==
    (CHOOSE t \in ts2 : t \notin (IF h # 0 THEN clearInterval(ts, h) ELSE ts)).h

ActiveTimers(kind) == { t \in timers : t.kind = kind }

(***************************************************************************)
(* UI (js/ui.js): selection state                                          *)
(***************************************************************************)
\* stops.find(s => String(s.id) === String(id)) || null
findStop(sts, idText) ==
    LET hits == { i \in 1..Len(sts) : String(sts[i].id) = idText }
    IN IF hits = {} THEN NoStop ELSE sts[CHOOSE i \in hits : \A j \in hits : i <= j]

\* option values populateStops puts in the source dropdown
dropdownOptions(sts, selectedRoutes) ==
    LET onRoute(stop) == Includes(selectedRoutes, String(stop.routeId))
        bySel == IF Len(selectedRoutes) > 0 THEN SelectSeq(sts, onRoute) ELSE sts
        filteredStops == IF Len(bySel) = 0 THEN sts ELSE bySel
    IN { String(filteredStops[i].id) : i \in { k \in 1..Len(filteredStops) :
             \A j \in 1..(k - 1) : filteredStops[j].name # filteredStops[k].name } }

\* assigning v to select.value: the value sticks only if an option carries it
setSelectValue(options, v) == IF v \in options THEN v ELSE ""

\* re-applying the saved default source to the dropdown
applyDefaultSource(options, value, def) == IF def # "" /\ def \in options THEN def ELSE value

\* ---- the settings panel ----
ClosedPanel == [open |-> FALSE, routeFilters |-> <<>>, defaultSource |-> "", defaultDest |-> ""]

\* openSettings -> populateSettingsPanel: one checkbox per route, checked when no
\* filter is stored or the filter lists the route; the default-stop selects
\* offer "" and every stop (by name) and take the stored defaults
populateSettingsPanel(item, rts, sts) ==
    LET selectedRoutes == selectedRoutesOf(item)
        options == dropdownOptions(sts, <<>>) \cup {""}
        destOf == LET v == getSettings(item)["defaultDest"] IN IF Truthy(v) THEN v.s ELSE ""
    IN [open |-> TRUE,
        routeFilters |-> [i \in 1..Len(rts) |->
                            [value |-> String(rts[i].id),
                             checked |-> \/ Len(selectedRoutes) = 0
                                         \/ Includes(selectedRoutes, String(rts[i].id))]],
        defaultSource |-> setSelectValue(options, defaultSourceOf(item)),
        defaultDest |-> setSelectValue(options, destOf)]

\* the values of the checked boxes, in document order
checkedRoutes(boxes) ==
    LET isChecked(box) == box.checked
        picked == SelectSeq(boxes, isChecked)
    IN [i \in 1..Len(picked) |-> picked[i].value]

\* UI saveSettings: the three Storage calls, one after the other
uiSaveSettings(pnl, item, rts, throws) ==
    LET allChecked == Len(checkedRoutes(pnl.routeFilters)) = Len(rts)
        s1 == saveSettings(item, [selectedRoutes |->
                  Array(IF allChecked THEN <<>> ELSE checkedRoutes(pnl.routeFilters))], throws)
        s2 == saveSettings(s1.item, [defaultSource |-> Text(pnl.defaultSource)], throws)
        s3 == saveSettings(s2.item, [defaultDest |-> Text(pnl.defaultDest)], throws)
    IN s3

(***************************************************************************)
(* MapManager (map module): markers and their visibility                   *)
(* The icon, position and popup of a marker are not modelled, nor are the  *)
(* route polylines.                                                        *)
(***************************************************************************)
NoMarkers == [k \in {} |-> FALSE]

\* isRouteVisible(routeId) under the map's filter `visible`
isRouteVisibleNoEmpty(visible, routeId) == Includes(visible, String(routeId))

isRouteVisible(visible, routeId) ==
    IF Len(visible) = 0 THEN TRUE ELSE Includes(visible, String(routeId))

\* the forEach loops of filterByRoutes over one marker map: each marker is
\* added to or removed from the map as its route is visible or not
filterMarkersOnlyRemoves(markers, visible) ==
    [k \in DOMAIN markers |->
        IF isRouteVisible(visible, markers[k].routeId) THEN markers[k]
        ELSE [markers[k] EXCEPT !.onMap = FALSE]]

filterMarkers(markers, visible) ==
    [k \in DOMAIN markers |->
        IF isRouteVisible(visible, markers[k].routeId)
        THEN IF ~markers[k].onMap THEN [markers[k] EXCEPT !.onMap = TRUE] ELSE markers[k]
        ELSE IF markers[k].onMap THEN [markers[k] EXCEPT !.onMap = FALSE] ELSE markers[k]]

\* buses.forEach of updateBuses from the i-th bus on: an existing marker is
\* updated and its visibility adjusted, a new one is created
RECURSIVE updateBusesFrom(_, _, _, _)
updateBusesFrom(markers, visible, bs, i) ==
    IF i > Len(bs) THEN markers
    ELSE LET bus == bs[i]
             shouldShow == isRouteVisible(visible, bus.routeId)
             has == bus.id \in DOMAIN markers
             onMap == IF has
                      THEN IF shouldShow /\ ~markers[bus.id].onMap THEN TRUE
                           ELSE IF ~shouldShow /\ markers[bus.id].onMap THEN FALSE
                           ELSE markers[bus.id].onMap
                      ELSE shouldShow
             marker == [routeId |-> bus.routeId, busData |-> bus, onMap |-> onMap]
         IN updateBusesFrom([k \in DOMAIN markers \cup {bus.id} |->
                                IF k = bus.id THEN marker ELSE markers[k]],
                            visible, bs, i + 1)

\* updateBuses(buses, routes): the markers held afterwards
updateBusesKeepInactive(markers, visible, bs) == updateBusesFrom(markers, visible, bs, 1)

updateBuses(markers, visible, bs) ==
    LET updated == updateBusesFrom(markers, visible, bs, 1)
        activeBusIds == { bs[i].id : i \in 1..Len(bs) }
    IN [k \in { b \in DOMAIN updated : b \in activeBusIds } |-> updated[k]]

\* addStops(stops, ..): one marker per stop id (the first stop of each id),
\* keyed by String(stop.id), a later stop of the same key replacing an earlier
addStops(markers, visible, sts) ==
    LET uniqueStops == { i \in 1..Len(sts) : \A j \in 1..(i - 1) : sts[j].id # sts[i].id }
        keys == { String(sts[i].id) : i \in uniqueStops }
        lastOf(k) == CHOOSE i \in uniqueStops :
                        /\ String(sts[i].id) = k
                        /\ \A j \in uniqueStops : String(sts[j].id) = k => j <= i
    IN [k \in DOMAIN markers \cup keys |->
          IF k \in keys
          THEN [routeId |-> sts[lastOf(k)].routeId, stopData |-> sts[lastOf(k)],
                onMap |-> isRouteVisible(visible, sts[lastOf(k)].routeId)]
          ELSE markers[k]]

(***************************************************************************)
(* State machine                                                           *)
(***************************************************************************)
NoRequest == [stop |-> NoStop, sel |-> <<>>, entry |-> "none"]
NoOutcome == [kind |-> "none", list |-> <<>>]
NoRefresh == [kind |-> "none", req |-> NoRequest, outcome |-> NoOutcome,
              threw |-> FALSE, pushed |-> FALSE, restarted |-> FALSE, fetched |-> <<>>]

\* the App before init has run, but for the stored settings
AppFresh ==
    /\ routes = <<>> /\ stops = <<>> /\ buses = <<>>
    /\ busRefreshInterval = 0 /\ arrivalsRefreshInterval = 0
    /\ timers = {}
    /\ phase = "loading"
    /\ pendingBus = 0
    /\ inflight = EmptyBag
    /\ pendingApplyDefaults = FALSE /\ pendingAutoShow = FALSE
    /\ currentView = "selection"
    /\ selectedSourceStop = NoStop
    /\ sourceValue = "" /\ sourceOptions = {}
    /\ arrivalsList = [loading |-> FALSE, items |-> <<>>]
    /\ lastRefresh = NoRefresh
    /\ leftDetails = FALSE
    /\ visibleRoutes = <<>>
    /\ busMarkers = NoMarkers /\ stopMarkers = NoMarkers

\* no call of calculateETAs is under study
EtaIdle ==
    /\ etaBuses = <<>> /\ etaStop = NoStop /\ etaFilter = <<>>
    /\ etaFleet = <<>> /\ etaResult = <<>>

\* no call of getRoutes, getStops or getBuses is under study
NormIdle ==
    /\ normCall = "" /\ normResponse = NullResponse /\ normResult = Returned(<<>>)

\* no call of parseRoutePoints is under study
ParseIdle ==
    /\ routePointsStr = [present |-> FALSE, chars |-> <<>>] /\ routePoints = <<>>

\* Storage and the settings panel are not under study: nothing stored here,
\* the panel never opened
NoStorageCall == [kind |-> "none", upd |-> NoObject, before |-> NoObject, ok |-> FALSE,
                  boxes |-> <<>>]
StorageIdle ==
    /\ stored = Absent /\ panel = ClosedPanel /\ storageCall = NoStorageCall

\* the API module as loaded: first proxy, no request made
ProxyIdle ==
    /\ currentProxyIndex = 0 /\ requests = <<>>

Init ==
    /\ settings \in StoredSettings
    /\ AppFresh
    /\ EtaIdle
    /\ NormIdle
    /\ ParseIdle
    /\ ProxyIdle
    /\ StorageIdle

\* ---- UI helpers: the state each UI function leaves behind ----

\* updateSelections: selectedSourceStop from the dropdown value v
updateSelections(v) == findStop(stops, v)

\* showSelectionView: view, dropdown re-set to the saved default, selection updated
showSelectionView ==
    LET v == applyDefaultSource(sourceOptions, sourceValue, getDefaultSource)
    IN /\ currentView' = "selection"
       /\ sourceValue' = v
       /\ selectedSourceStop' = updateSelections(v)

\* showDetailsView(sourceStop, ..): view, selection, loading spinner
showDetailsView(sourceStop) ==
    /\ currentView' = "details"
    /\ selectedSourceStop' = sourceStop
    /\ arrivalsList' = [loading |-> TRUE, items |-> <<>>]

\* refreshArrivals(stop) up to its await: the filter is read, the request leaves.
\* entry tells who called: "search" (handleSearch, which goes on to
\* startArrivalsPolling), "view" (autoShowArrivals and goBackToDetailsView, on
\* showing the details view) or "timer" (the arrivals interval)
beginRefreshArrivals(stop, entry) ==
    inflight' = inflight (+) SetToBag({[stop |-> stop, sel |-> getRouteFilter, entry |-> entry]})

\* ---- App.init ----

\* the rest of init after `await loadInitialData()`: filterByRoutes when a filter
\* is saved (bm: the bus markers held by then), startBusPolling,
\* setTimeout(autoShowArrivals)
initContinues(bm) ==
    /\ visibleRoutes' = IF Len(getRouteFilter) > 0 THEN getRouteFilter ELSE visibleRoutes
    /\ stopMarkers' = IF Len(getRouteFilter) > 0 THEN filterMarkers(stopMarkers, getRouteFilter)
                      ELSE stopMarkers
    /\ busMarkers' = IF Len(getRouteFilter) > 0 THEN filterMarkers(bm, getRouteFilter) ELSE bm
    /\ timers' = startBusPolling(timers, busRefreshInterval)
    /\ busRefreshInterval' = createdHandle(timers, busRefreshInterval, timers')
    /\ pendingAutoShow' = TRUE
    /\ phase' = "running"

\* what init does when loadInitialData's fetches fail: the catch swallows the error
afterLoadFailureAbort == "aborted"
afterLoadFailure == "continue"

\* The zero-delay timeout that populateStops sets is queued the moment it is
\* set, so its callback runs before any event that arrives afterwards.
TimeoutsRun == ~pendingApplyDefaults

\* Promise.all([getRoutes, getStops]) resolves: snapshot stored, dropdowns
\* populated, first refreshBuses awaited
LoadInitialDataOk ==
    /\ TimeoutsRun
    /\ phase = "loading"
    /\ routes' = UpstreamRoutes
    /\ stops' = UpstreamStops
    /\ sourceOptions' = dropdownOptions(UpstreamStops, getSelectedRoutes)
    /\ sourceValue' = ""
    /\ pendingApplyDefaults' = TRUE
    /\ phase' = "initBuses"
    /\ UNCHANGED << settings, buses, busRefreshInterval, arrivalsRefreshInterval, timers,
                    pendingBus, inflight, pendingAutoShow, currentView, selectedSourceStop,
                    arrivalsList, leftDetails >>
    /\ lastRefresh' = NoRefresh
    /\ stopMarkers' = addStops(stopMarkers, visibleRoutes, UpstreamStops)
    /\ UNCHANGED << visibleRoutes, busMarkers >>
    /\ UNCHANGED apiVars

\* getRoutes or getStops throws
LoadInitialDataFail ==
    /\ TimeoutsRun
    /\ phase = "loading"
    /\ IF afterLoadFailure = "continue"
       THEN initContinues(busMarkers)
       ELSE /\ phase' = "aborted"
            /\ UNCHANGED << timers, busRefreshInterval, pendingAutoShow, mapVars >>
    /\ UNCHANGED << settings, routes, stops, buses, arrivalsRefreshInterval, pendingBus,
                    inflight, pendingApplyDefaults, currentView, selectedSourceStop,
                    sourceValue, sourceOptions, arrivalsList, leftDetails >>
    /\ lastRefresh' = NoRefresh
    /\ UNCHANGED apiVars

\* ---- refreshBuses ----

\* API.getBuses() for each payload a refresh can meet
getBusesOf == [payload \in BusPayloads |-> getBuses(payload).value]

\* the part of refreshBuses after `buses = await API.getBuses()` resolved with the
\* list bs, but for MapManager.updateBuses, which the actions add (init filters
\* the markers in the same step)
refreshBusesGotAlwaysPushes(bs) ==
    /\ buses' = bs
    /\ arrivalsList' = [loading |-> FALSE,
                        items |-> refreshBusesArrivals(bs, selectedSourceStop, routes, getRouteFilter)]
    /\ lastRefresh' = [NoRefresh EXCEPT !.kind = "buses", !.fetched = bs]

refreshBusesGot(bs) ==
    /\ buses' = bs
    /\ arrivalsList' =
         IF currentView = "details" /\ selectedSourceStop # NoStop
         THEN [loading |-> FALSE,
               items |-> refreshBusesArrivals(bs, selectedSourceStop, routes, getRouteFilter)]
         ELSE arrivalsList
    /\ lastRefresh' = [NoRefresh EXCEPT !.kind = "buses", !.fetched = bs]

refreshBuses(payload) == \E bs \in { getBusesOf[payload] } : refreshBusesGot(bs)

\* the first refreshBuses (awaited by loadInitialData) resolves; init goes on
InitRefreshBusesResolve ==
    /\ TimeoutsRun
    /\ phase = "initBuses"
    /\ \E payload \in BusPayloads :
         /\ refreshBuses(payload)
         /\ initContinues(updateBuses(busMarkers, visibleRoutes, getBusesOf[payload]))
    /\ UNCHANGED << settings, routes, stops, arrivalsRefreshInterval, pendingBus, inflight,
                    pendingApplyDefaults, currentView, selectedSourceStop, sourceValue,
                    sourceOptions, leftDetails >>
    /\ UNCHANGED apiVars

\* the first refreshBuses fails: its own catch logs, init goes on
InitRefreshBusesReject ==
    /\ TimeoutsRun
    /\ phase = "initBuses"
    /\ initContinues(busMarkers)
    /\ UNCHANGED << settings, routes, stops, buses, arrivalsRefreshInterval, pendingBus,
                    inflight, pendingApplyDefaults, currentView, selectedSourceStop,
                    sourceValue, sourceOptions, arrivalsList, leftDetails >>
    /\ lastRefresh' = NoRefresh
    /\ UNCHANGED apiVars

\* the bus interval fires: refreshBuses runs up to its await
BusTimerFire ==
    /\ TimeoutsRun
    /\ ActiveTimers("bus") # {}
    /\ pendingBus < MaxPendingBus
    /\ pendingBus' = pendingBus + 1
    /\ UNCHANGED << settings, routes, stops, buses, busRefreshInterval, arrivalsRefreshInterval,
                    timers, phase, inflight, pendingApplyDefaults, pendingAutoShow, currentView,
                    selectedSourceStop, sourceValue, sourceOptions, arrivalsList,
                    leftDetails >>
    /\ lastRefresh' = NoRefresh
    /\ UNCHANGED mapVars
    /\ UNCHANGED apiVars

\* the refresh button: App.refreshBuses()
RefreshButton ==
    /\ TimeoutsRun
    /\ pendingBus < MaxPendingBus
    /\ pendingBus' = pendingBus + 1
    /\ UNCHANGED << settings, routes, stops, buses, busRefreshInterval, arrivalsRefreshInterval,
                    timers, phase, inflight, pendingApplyDefaults, pendingAutoShow, currentView,
                    selectedSourceStop, sourceValue, sourceOptions, arrivalsList,
                    leftDetails >>
    /\ lastRefresh' = NoRefresh
    /\ UNCHANGED mapVars
    /\ UNCHANGED apiVars

RefreshBusesResolve ==
    /\ TimeoutsRun
    /\ pendingBus > 0
    /\ pendingBus' = pendingBus - 1
    /\ \E payload \in BusPayloads :
         /\ refreshBuses(payload)
         /\ busMarkers' = updateBuses(busMarkers, visibleRoutes, getBusesOf[payload])
    /\ UNCHANGED << settings, routes, stops, busRefreshInterval, arrivalsRefreshInterval,
                    timers, phase, inflight, pendingApplyDefaults, pendingAutoShow, currentView,
                    selectedSourceStop, sourceValue, sourceOptions, leftDetails >>
    /\ UNCHANGED << visibleRoutes, stopMarkers >>
    /\ UNCHANGED apiVars

RefreshBusesReject ==
    /\ TimeoutsRun
    /\ pendingBus > 0
    /\ pendingBus' = pendingBus - 1
    /\ UNCHANGED << settings, routes, stops, buses, busRefreshInterval, arrivalsRefreshInterval,
                    timers, phase, inflight, pendingApplyDefaults, pendingAutoShow, currentView,
                    selectedSourceStop, sourceValue, sourceOptions, arrivalsList,
                    leftDetails >>
    /\ lastRefresh' = NoRefresh
    /\ UNCHANGED mapVars
    /\ UNCHANGED apiVars

\* ---- timeouts ----

\* populateStops' setTimeout(.., 0): saved default applied to the dropdown, updateSelections
ApplyDefaultsTimeout ==
    /\ pendingApplyDefaults
    /\ pendingApplyDefaults' = FALSE
    /\ LET v == applyDefaultSource(sourceOptions, sourceValue, getDefaultSource)
       IN /\ sourceValue' = v
          /\ selectedSourceStop' = updateSelections(v)
    /\ UNCHANGED << settings, routes, stops, buses, busRefreshInterval, arrivalsRefreshInterval,
                    timers, phase, pendingBus, inflight, pendingAutoShow, currentView,
                    sourceOptions, arrivalsList, leftDetails >>
    /\ lastRefresh' = NoRefresh
    /\ UNCHANGED mapVars
    /\ UNCHANGED apiVars

\* init's setTimeout(autoShowArrivals, 200)
AutoShowArrivals ==
    /\ TimeoutsRun
    /\ pendingAutoShow
    /\ pendingAutoShow' = FALSE
    /\ LET sourceStop == findStop(stops, getDefaultSource)
       IN IF getDefaultSource # "" /\ sourceStop # NoStop
          THEN /\ BagCardinality(inflight) < MaxInflight
               /\ showDetailsView(sourceStop)
               /\ beginRefreshArrivals(sourceStop, "view")
               /\ timers' = startArrivalsPolling(timers, arrivalsRefreshInterval, sourceStop)
               /\ arrivalsRefreshInterval' = createdHandle(timers, arrivalsRefreshInterval, timers')
               /\ leftDetails' = FALSE
          ELSE UNCHANGED << currentView, selectedSourceStop, arrivalsList, inflight, timers,
                            arrivalsRefreshInterval, leftDetails >>
    /\ UNCHANGED << settings, routes, stops, buses, busRefreshInterval, phase, pendingBus,
                    pendingApplyDefaults, sourceValue, sourceOptions >>
    /\ lastRefresh' = NoRefresh
    /\ UNCHANGED mapVars
    /\ UNCHANGED apiVars

\* ---- user events ----

\* the search button (in the selection view): handleSearch up to its await
SearchClick ==
    /\ TimeoutsRun
    /\ currentView = "selection"
    /\ selectedSourceStop # NoStop
    /\ BagCardinality(inflight) < MaxInflight
    /\ showDetailsView(selectedSourceStop)
    /\ beginRefreshArrivals(selectedSourceStop, "search")
    /\ leftDetails' = FALSE
    /\ UNCHANGED << settings, routes, stops, buses, busRefreshInterval, arrivalsRefreshInterval,
                    timers, phase, pendingBus, pendingApplyDefaults, pendingAutoShow,
                    sourceValue, sourceOptions >>
    /\ lastRefresh' = NoRefresh
    /\ UNCHANGED mapVars
    /\ UNCHANGED apiVars

\* the source dropdown (in the selection view) changes: updateSelections
SourceDropdownChange ==
    /\ TimeoutsRun
    /\ currentView = "selection"
    /\ \E v \in sourceOptions \cup {""} :
         /\ v # sourceValue
         /\ sourceValue' = v
         /\ selectedSourceStop' = updateSelections(v)
    /\ UNCHANGED << settings, routes, stops, buses, busRefreshInterval, arrivalsRefreshInterval,
                    timers, phase, pendingBus, inflight, pendingApplyDefaults, pendingAutoShow,
                    currentView, sourceOptions, arrivalsList, leftDetails >>
    /\ lastRefresh' = NoRefresh
    /\ UNCHANGED mapVars
    /\ UNCHANGED apiVars

\* a stop marker shown on the map is clicked: handleStopClick -> UI.selectSourceStop
StopMarkerClick ==
    /\ TimeoutsRun
    /\ \E k \in DOMAIN stopMarkers :
         LET v == setSelectValue(sourceOptions, String(stopMarkers[k].stopData.id))
         IN /\ stopMarkers[k].onMap
            /\ sourceValue' = v
            /\ selectedSourceStop' = updateSelections(v)
    /\ UNCHANGED << settings, routes, stops, buses, busRefreshInterval, arrivalsRefreshInterval,
                    timers, phase, pendingBus, inflight, pendingApplyDefaults, pendingAutoShow,
                    currentView, sourceOptions, arrivalsList, leftDetails >>
    /\ lastRefresh' = NoRefresh
    /\ UNCHANGED mapVars
    /\ UNCHANGED apiVars

\* a bus is clicked, on its marker shown on the map or on its arrival card in the
\* details view (handleArrivalClick looks the bus up in the snapshot first):
\* handleBusClick -> UI.showBusNavView
BusClick ==
    /\ TimeoutsRun
    /\ \/ \E k \in DOMAIN busMarkers : busMarkers[k].onMap
       \/ /\ currentView = "details"
          /\ \E i \in 1..Len(arrivalsList.items) : \E j \in 1..Len(buses) :
                String(buses[j].id) = String(arrivalsList.items[i].busId)
    /\ currentView' = "busNav"
    /\ UNCHANGED << settings, routes, stops, buses, busRefreshInterval, arrivalsRefreshInterval,
                    timers, phase, pendingBus, inflight, pendingApplyDefaults, pendingAutoShow,
                    selectedSourceStop, sourceValue, sourceOptions, arrivalsList,
                    leftDetails >>
    /\ lastRefresh' = NoRefresh
    /\ UNCHANGED mapVars
    /\ UNCHANGED apiVars

\* goBackToDetailsView: details of the selected (or saved default) stop and one
\* refreshArrivals, or the selection view when there is no such stop
goBackToDetailsView ==
    LET sourceStop == IF selectedSourceStop # NoStop THEN selectedSourceStop
                      ELSE IF getDefaultSource # "" THEN findStop(stops, getDefaultSource)
                      ELSE NoStop
    IN IF sourceStop # NoStop
       THEN /\ BagCardinality(inflight) < MaxInflight
            /\ showDetailsView(sourceStop)
            /\ beginRefreshArrivals(sourceStop, "view")
            /\ UNCHANGED sourceValue
       ELSE /\ showSelectionView
            /\ UNCHANGED << arrivalsList, inflight >>

\* the back button (shown in the details and bus views)
BackFromBusNav ==
    /\ TimeoutsRun
    /\ currentView = "busNav"
    /\ goBackToDetailsView
    /\ UNCHANGED << settings, routes, stops, buses, busRefreshInterval, arrivalsRefreshInterval,
                    timers, phase, pendingBus, pendingApplyDefaults, pendingAutoShow,
                    sourceOptions, leftDetails >>
    /\ lastRefresh' = NoRefresh
    /\ UNCHANGED mapVars
    /\ UNCHANGED apiVars

BackFromDetails ==
    /\ TimeoutsRun
    /\ currentView = "details"
    /\ showSelectionView
    /\ leftDetails' = TRUE
    /\ UNCHANGED << settings, routes, stops, buses, busRefreshInterval, arrivalsRefreshInterval,
                    timers, phase, pendingBus, inflight, pendingApplyDefaults, pendingAutoShow,
                    sourceOptions, arrivalsList >>
    /\ lastRefresh' = NoRefresh
    /\ UNCHANGED mapVars
    /\ UNCHANGED apiVars

\* the clear-settings button: Storage.clearSettings, populateStops, filterByRoutes([])
ClearSettings ==
    /\ TimeoutsRun
    /\ settings # defaults
    /\ settings' = defaults
    /\ sourceOptions' = dropdownOptions(stops, <<>>)
    /\ sourceValue' = ""
    /\ pendingApplyDefaults' = TRUE
    /\ UNCHANGED << routes, stops, buses, busRefreshInterval, arrivalsRefreshInterval, timers,
                    phase, pendingBus, inflight, pendingAutoShow, currentView,
                    selectedSourceStop, arrivalsList, leftDetails >>
    /\ lastRefresh' = NoRefresh
    /\ visibleRoutes' = <<>>
    /\ stopMarkers' = filterMarkers(stopMarkers, <<>>)
    /\ busMarkers' = filterMarkers(busMarkers, <<>>)
    /\ UNCHANGED apiVars

\* ---- refreshArrivals ----

\* the arrivals interval h fires: refreshArrivals(stop) with the stop the interval was created for
ArrivalsTimerFire ==
    /\ TimeoutsRun
    /\ BagCardinality(inflight) < MaxInflight
    /\ \E t \in ActiveTimers("arrivals") :
         /\ beginRefreshArrivals(t.stop, "timer")
         /\ lastRefresh' = [NoRefresh EXCEPT !.kind = "fire",
                               !.req = [stop |-> t.stop, sel |-> getRouteFilter, entry |-> "timer"]]
    /\ UNCHANGED << settings, routes, stops, buses, busRefreshInterval, arrivalsRefreshInterval,
                    timers, phase, pendingBus, pendingApplyDefaults, pendingAutoShow,
                    currentView, selectedSourceStop, sourceValue, sourceOptions, arrivalsList,
                    leftDetails >>
    /\ UNCHANGED mapVars
    /\ UNCHANGED apiVars

\* API.getStopArrivals of request req settles with some outcome: the rest of
\* refreshArrivals runs and, for handleSearch, startArrivalsPolling follows
RefreshArrivalsSettle ==
    /\ TimeoutsRun
    /\ \E req \in BagToSet(inflight) : \E outcome \in ArrivalOutcomes :
       LET r == refreshArrivals(getStopArrivals(outcome), req.sel, buses, req.stop,
                                      routes, getRouteFilter)
       IN /\ inflight' = inflight (-) SetToBag({req})
          /\ arrivalsList' = IF r.pushed THEN [loading |-> FALSE, items |-> r.items]
                             ELSE arrivalsList
          /\ lastRefresh' = [kind |-> "arrivals", req |-> req, outcome |-> outcome,
                             threw |-> r.threw, pushed |-> r.pushed,
                             restarted |-> (req.entry = "search" /\ ~r.threw
                                            /\ arrivalsRefreshInterval # 0),
                             fetched |-> <<>>]
          /\ IF req.entry = "search" /\ ~r.threw
             THEN /\ timers' = startArrivalsPolling(timers, arrivalsRefreshInterval, req.stop)
                  /\ arrivalsRefreshInterval' = createdHandle(timers, arrivalsRefreshInterval, timers')
             ELSE UNCHANGED << timers, arrivalsRefreshInterval >>
          /\ UNCHANGED << settings, routes, stops, buses, busRefreshInterval, phase, pendingBus,
                          pendingApplyDefaults, pendingAutoShow, currentView,
                          selectedSourceStop, sourceValue, sourceOptions, leftDetails >>
    /\ UNCHANGED mapVars
    /\ UNCHANGED apiVars

Next ==
    \/ LoadInitialDataOk
    \/ LoadInitialDataFail
    \/ InitRefreshBusesResolve
    \/ InitRefreshBusesReject
    \/ BusTimerFire
    \/ RefreshButton
    \/ RefreshBusesResolve
    \/ RefreshBusesReject
    \/ ApplyDefaultsTimeout
    \/ AutoShowArrivals
    \/ SearchClick
    \/ SourceDropdownChange
    \/ StopMarkerClick
    \/ BusClick
    \/ BackFromBusNav
    \/ BackFromDetails
    \/ ClearSettings
    \/ ArrivalsTimerFire
    \/ RefreshArrivalsSettle

Spec == Init /\ [][Next]_vars

\* The App when the fetches loadInitialData awaits (getRoutes and getStops,
\* then the first getBuses) may never settle: the browser still runs every
\* timeout and interval that is due, and every other fetch settles.
HungLoadFairness ==
    /\ WF_vars(RefreshBusesResolve \/ RefreshBusesReject)
    /\ WF_vars(RefreshArrivalsSettle)
    /\ WF_vars(BusTimerFire)
    /\ WF_vars(ArrivalsTimerFire)
    /\ WF_vars(ApplyDefaultsTimeout)
    /\ WF_vars(AutoShowArrivals)

SpecHungLoad == Init /\ [][Next]_vars /\ HungLoadFairness

(***************************************************************************)
(* calculateETAs on its own: the stop, the filter and the records the bus  *)
(* list is made of are chosen at the start; each step is one more call,    *)
(* with a bus list one record longer than the last.                        *)
(***************************************************************************)
InitETA ==
    /\ settings = defaults
    /\ AppFresh
    /\ etaFleet \in Fleets
    /\ etaFilter \in RouteFilters
    /\ \E i \in 1..Len(UpstreamStops) : etaStop = UpstreamStops[i]
    /\ etaBuses = <<>>
    /\ etaResult = calculateETAs(<<>>, etaStop, UpstreamRoutes, etaFilter)
    /\ NormIdle
    /\ ParseIdle
    /\ ProxyIdle
    /\ StorageIdle

CallCalculateETAs ==
    /\ Len(etaBuses) < MaxBuses
    /\ \E k \in 1..Len(etaFleet) :
         /\ etaBuses' = Append(etaBuses, etaFleet[k])
         /\ etaResult' = calculateETAs(etaBuses', etaStop, UpstreamRoutes, etaFilter)
    /\ UNCHANGED << etaStop, etaFilter, etaFleet >>
    /\ UNCHANGED << appVars, mapVars, normVars, parseVars, proxyVars, storageVars >>

NextETA == CallCalculateETAs

SpecETA == InitETA /\ [][NextETA]_vars

(***************************************************************************)
(* getRoutes, getStops and getBuses on their own: the call and the         *)
(* response it starts from (null, no container, an empty array, an empty   *)
(* keyed map) are chosen at the start; each step is one more call, on a    *)
(* response whose container holds one entry more than the last.            *)
(***************************************************************************)
EntriesOf(r1, r2) == { Rec(r1), Rec(r2), NullEntry, List(<<>>), List(<<r2, r1>>) }

EmptyResponses ==
    { NullResponse, Response("absent", <<>>), Response("array", <<>>), Response("map", <<>>) }

InitNorm ==
    /\ settings = defaults
    /\ AppFresh
    /\ EtaIdle
    /\ normCall \in {"getRoutes", "getStops", "getBuses"}
    /\ normResponse \in EmptyResponses
    /\ normResult = (CASE normCall = "getRoutes" -> getRoutes(normResponse)
                        [] normCall = "getStops" -> getStops(normResponse)
                        [] normCall = "getBuses" -> getBuses(normResponse))
    /\ ParseIdle
    /\ ProxyIdle
    /\ StorageIdle

\* the response grows by one entry
OneMoreEntry(entries) ==
    /\ ~normResponse.isNull /\ normResponse.shape # "absent"
    /\ Len(normResponse.items) < MaxEntries
    /\ \E e \in entries : normResponse' = [normResponse EXCEPT !.items = Append(@, e)]

CallGetRoutes ==
    /\ normCall = "getRoutes"
    /\ OneMoreEntry(EntriesOf(RawRouteR, RawRouteB))
    /\ normResult' = getRoutes(normResponse')
    /\ UNCHANGED << normCall, appVars, mapVars, etaVars, parseVars, proxyVars, storageVars >>

CallGetStops ==
    /\ normCall = "getStops"
    /\ OneMoreEntry(EntriesOf(RawStopH, RawStopV))
    /\ normResult' = getStops(normResponse')
    /\ UNCHANGED << normCall, appVars, mapVars, etaVars, parseVars, proxyVars, storageVars >>

CallGetBuses ==
    /\ normCall = "getBuses"
    /\ OneMoreEntry(EntriesOf(RawBusA, RawBusB))
    /\ normResult' = getBuses(normResponse')
    /\ UNCHANGED << normCall, appVars, mapVars, etaVars, parseVars, proxyVars, storageVars >>

NextNorm ==
    \/ CallGetRoutes
    \/ CallGetStops
    \/ CallGetBuses

SpecNorm == InitNorm /\ [][NextNorm]_vars

(***************************************************************************)
(* parseRoutePoints on its own: first called with no string or with the    *)
(* empty one; each step is one more call, on a string one character longer *)
(* than the last.                                                          *)
(***************************************************************************)
PointChars == {"1", "2", "x", ","}

InitParse ==
    /\ settings = defaults
    /\ AppFresh
    /\ EtaIdle
    /\ NormIdle
    /\ routePointsStr \in { [present |-> FALSE, chars |-> <<>>], [present |-> TRUE, chars |-> <<>>] }
    /\ routePoints = parseRoutePoints(routePointsStr)
    /\ ProxyIdle
    /\ StorageIdle

CallParseRoutePoints ==
    /\ Len(routePointsStr.chars) < MaxChars
    /\ \E c \in PointChars :
         routePointsStr' = [present |-> TRUE, chars |-> Append(routePointsStr.chars, c)]
    /\ routePoints' = parseRoutePoints(routePointsStr')
    /\ UNCHANGED << appVars, mapVars, etaVars, normVars, proxyVars, storageVars >>

NextParse == CallParseRoutePoints

SpecParse == InitParse /\ [][NextParse]_vars

(***************************************************************************)
(* postRequest on its own: requests are made, one after another or while   *)
(* earlier ones are still awaiting their fetch, and each attempt succeeds  *)
(* or fails.                                                               *)
(***************************************************************************)
CORS_PROXIES == <<"allorigins", "standard", "corssh">>

InitProxy ==
    /\ settings = defaults
    /\ AppFresh
    /\ EtaIdle
    /\ NormIdle
    /\ ParseIdle
    /\ ProxyIdle
    /\ StorageIdle

\* postRequest up to its await: the attempt runs on CORS_PROXIES[currentProxyIndex];
\* tried and attempts are the proxies tried and the fetches made for the request so far
attemptOnFirst(tried, attempts) ==
    [proxy |-> 0, tried |-> tried \cup {0}, attempts |-> attempts + 1, state |-> "awaiting"]

attempt(tried, attempts) ==
    [proxy |-> currentProxyIndex', tried |-> tried \cup {currentProxyIndex'},
     attempts |-> attempts + 1, state |-> "awaiting"]

\* the catch's test: is there a proxy left to move on to
mayRetryAlways(index) == TRUE

mayRetry(index) == index < Len(CORS_PROXIES) - 1

\* a caller (getRoutes, getStops, getBuses, getStopArrivals) calls postRequest
CallPostRequest ==
    /\ Len(requests) < MaxRequests
    /\ UNCHANGED currentProxyIndex
    /\ requests' = Append(requests, attempt({}, 0))
    /\ UNCHANGED << appVars, mapVars, etaVars, normVars, parseVars, storageVars >>

\* the awaited fetch of request r answers and the body parses: postRequest returns
succeeds(r) ==
    /\ r \in 1..Len(requests)
    /\ requests[r].state = "awaiting"
    /\ requests' = [requests EXCEPT ![r].state = "returned"]
    /\ UNCHANGED currentProxyIndex
    /\ UNCHANGED << appVars, mapVars, etaVars, normVars, parseVars, storageVars >>

AttemptSucceeds == \E r \in 1..Len(requests) : succeeds(r)

\* the attempt of request r throws (fetch rejects, !response.ok, JSON.parse):
\* the catch moves on to the next proxy and calls postRequest again, or rethrows
fails(r) ==
    /\ r \in 1..Len(requests)
    /\ requests[r].state = "awaiting"
    /\ IF mayRetry(currentProxyIndex)
       THEN /\ currentProxyIndex' = currentProxyIndex + 1
            /\ requests' = [requests EXCEPT ![r] = attempt(requests[r].tried, requests[r].attempts)]
       ELSE /\ UNCHANGED currentProxyIndex
            /\ requests' = [requests EXCEPT ![r].state = "threw"]
    /\ UNCHANGED << appVars, mapVars, etaVars, normVars, parseVars, storageVars >>

AttemptFails == \E r \in 1..Len(requests) : fails(r)

NextProxy ==
    \/ CallPostRequest
    \/ AttemptSucceeds
    \/ AttemptFails

SpecProxy == InitProxy /\ [][NextProxy]_vars

\* postRequest when every fetch settles: the awaited attempt of each request
\* sooner or later succeeds or fails
EveryFetchSettles == \A r \in 1..MaxRequests : WF_vars(succeeds(r) \/ fails(r))

SpecProxySettling == InitProxy /\ [][NextProxy]_vars /\ EveryFetchSettles

(***************************************************************************)
(* Overlapping bus refreshes and the map: the App once init is through     *)
(* (snapshot loaded, saved filter applied to the map, no bus seen yet), in *)
(* the selection view or in the details view of the first stop.            *)
(* refreshBuses is invoked, by the bus interval or the refresh button,     *)
(* while earlier invocations still await their fetch; the fetches settle   *)
(* in any order; MapManager.filterByRoutes is called with any filter.      *)
(***************************************************************************)
InitMap ==
    /\ settings \in StoredSettings
    /\ routes = UpstreamRoutes /\ stops = UpstreamStops /\ buses = <<>>
    /\ busRefreshInterval = 1 /\ arrivalsRefreshInterval = 0
    /\ timers = { [h |-> 1, kind |-> "bus", stop |-> NoStop] }
    /\ phase = "running"
    /\ pendingBus = 0
    /\ inflight = EmptyBag
    /\ pendingApplyDefaults = FALSE /\ pendingAutoShow = FALSE
    /\ \/ currentView = "selection" /\ selectedSourceStop = NoStop /\ sourceValue = ""
       \/ /\ currentView = "details" /\ selectedSourceStop = UpstreamStops[1]
          /\ sourceValue = String(UpstreamStops[1].id)
    /\ sourceOptions = dropdownOptions(UpstreamStops, getSelectedRoutes)
    /\ arrivalsList = [loading |-> FALSE, items |-> <<>>]
    /\ lastRefresh = NoRefresh
    /\ leftDetails = FALSE
    /\ visibleRoutes = getSelectedRoutes
    /\ busMarkers = NoMarkers
    /\ stopMarkers = filterMarkers(addStops(NoMarkers, <<>>, UpstreamStops), getSelectedRoutes)
    /\ EtaIdle
    /\ NormIdle
    /\ ParseIdle
    /\ ProxyIdle
    /\ StorageIdle

mapFrame ==
    UNCHANGED << settings, routes, stops, busRefreshInterval, arrivalsRefreshInterval, timers,
                 phase, inflight, pendingApplyDefaults, pendingAutoShow, currentView,
                 selectedSourceStop, sourceValue, sourceOptions, leftDetails, apiVars >>

\* refreshBuses is invoked and runs up to its await
InvokeRefreshBuses ==
    /\ pendingBus < MaxOverlap
    /\ pendingBus' = pendingBus + 1
    /\ lastRefresh' = NoRefresh
    /\ UNCHANGED << buses, arrivalsList, mapVars >>
    /\ mapFrame

\* the fetch of one of the invocations resolves with the list bs
FetchBusesResolves ==
    /\ pendingBus > 0
    /\ pendingBus' = pendingBus - 1
    /\ \E bs \in MapFleets :
         /\ refreshBusesGot(bs)
         /\ busMarkers' = updateBuses(busMarkers, visibleRoutes, bs)
    /\ UNCHANGED << visibleRoutes, stopMarkers >>
    /\ mapFrame

\* the fetch of one of the invocations fails: refreshBuses' catch logs
FetchBusesRejects ==
    /\ pendingBus > 0
    /\ pendingBus' = pendingBus - 1
    /\ lastRefresh' = NoRefresh
    /\ UNCHANGED << buses, arrivalsList, mapVars >>
    /\ mapFrame

\* MapManager.filterByRoutes(routeIds)
CallFilterByRoutes ==
    /\ \E routeIds \in RouteFilters :
         /\ visibleRoutes' = routeIds
         /\ stopMarkers' = filterMarkers(stopMarkers, routeIds)
         /\ busMarkers' = filterMarkers(busMarkers, routeIds)
    /\ lastRefresh' = [NoRefresh EXCEPT !.kind = "filter"]
    /\ UNCHANGED << buses, arrivalsList, pendingBus >>
    /\ mapFrame

NextMap ==
    \/ InvokeRefreshBuses
    \/ FetchBusesResolves
    \/ FetchBusesRejects
    \/ CallFilterByRoutes

SpecMap == InitMap /\ [][NextMap]_vars

(***************************************************************************)
(* refreshArrivals against every upstream answer (SpecArrivals): the       *)
(* details view is open for a stop, its arrivals timer fires and the       *)
(* request meets any list the upstream can answer with                     *)
(***************************************************************************)
\* the lists the arrivals container of a response can hold
UpstreamLists ==
    { <<>>, <<ArrA>>, <<ArrB>>, <<ArrC>>, <<ArrA, ArrB>>, <<ArrB, ArrC>>, <<ArrA, ArrC>>,
      <<ArrA, ArrB, ArrC>> }

UpstreamAnswers ==
    { [kind |-> "throw", list |-> <<>>], [kind |-> "null", list |-> <<>>] }
        \cup { [kind |-> "data", list |-> l] : l \in UpstreamLists }

InitArrivals ==
    /\ settings \in { [selectedRoutes |-> f, defaultSource |-> ""] : f \in RouteFilters }
    /\ routes = UpstreamRoutes /\ stops = UpstreamStops
    /\ buses \in Fleets \cup { <<>> }
    /\ busRefreshInterval = 1 /\ arrivalsRefreshInterval = 2
    /\ \E i \in 1..Len(UpstreamStops) :
         /\ selectedSourceStop = UpstreamStops[i]
         /\ sourceValue = String(UpstreamStops[i].id)
         /\ timers = { [h |-> 1, kind |-> "bus", stop |-> NoStop],
                       [h |-> 2, kind |-> "arrivals", stop |-> UpstreamStops[i]] }
    /\ currentView = "details"
    /\ phase = "running"
    /\ pendingBus = 0
    /\ inflight = EmptyBag
    /\ pendingApplyDefaults = FALSE /\ pendingAutoShow = FALSE
    /\ sourceOptions = dropdownOptions(UpstreamStops, getSelectedRoutes)
    /\ arrivalsList = [loading |-> TRUE, items |-> <<>>]
    /\ lastRefresh = NoRefresh
    /\ leftDetails = FALSE
    /\ visibleRoutes = getSelectedRoutes
    /\ busMarkers = updateBuses(NoMarkers, getSelectedRoutes, buses)
    /\ stopMarkers = filterMarkers(addStops(NoMarkers, <<>>, UpstreamStops), getSelectedRoutes)
    /\ EtaIdle
    /\ NormIdle
    /\ ParseIdle
    /\ ProxyIdle
    /\ StorageIdle

arrivalsFrame ==
    UNCHANGED << settings, routes, stops, buses, busRefreshInterval, arrivalsRefreshInterval,
                 timers, phase, pendingBus, pendingApplyDefaults, pendingAutoShow, currentView,
                 selectedSourceStop, sourceValue, sourceOptions, leftDetails, mapVars, apiVars >>

\* the arrivals interval fires: refreshArrivals(stop) runs up to its await
ArrivalsIntervalFires ==
    /\ BagCardinality(inflight) < MaxOverlap
    /\ \E t \in ActiveTimers("arrivals") :
         /\ inflight' = inflight (+) SetToBag({[stop |-> t.stop, sel |-> getRouteFilter,
                                                entry |-> "timer"]})
         /\ lastRefresh' = [NoRefresh EXCEPT
                               !.req = [stop |-> t.stop, sel |-> getRouteFilter, entry |-> "timer"]]
    /\ UNCHANGED arrivalsList
    /\ arrivalsFrame

\* API.getStopArrivals settles for one of the invocations: the rest of
\* refreshArrivals runs
StopArrivalsSettles ==
    /\ \E req \in BagToSet(inflight) : \E outcome \in UpstreamAnswers :
       LET r == refreshArrivals(getStopArrivals(outcome), req.sel, buses, req.stop,
                                routes, getRouteFilter)
       IN /\ inflight' = inflight (-) SetToBag({req})
          /\ arrivalsList' = IF r.pushed THEN [loading |-> FALSE, items |-> r.items]
                             ELSE arrivalsList
          /\ lastRefresh' = [kind |-> "arrivals", req |-> req, outcome |-> outcome,
                             threw |-> r.threw, pushed |-> r.pushed, restarted |-> FALSE,
                             fetched |-> <<>>]
    /\ arrivalsFrame

NextArrivals ==
    \/ ArrivalsIntervalFires
    \/ StopArrivalsSettles

SpecArrivals == InitArrivals /\ [][NextArrivals]_vars

(***************************************************************************)
(* Properties                                                              *)
(***************************************************************************)
ArrivalsSettled == lastRefresh.kind = "arrivals"
Shown(items) == [loading |-> FALSE, items |-> items]
Range(seq) == { seq[i] : i \in 1..Len(seq) }

\* C1: at most one arrivals interval is running, in every reachable state.
C1_SingleArrivalsTimer == Cardinality(ActiveTimers("arrivals")) <= 1

\* a search has just restarted the arrivals polling that was already running
C1_Witness ==
    /\ lastRefresh.restarted
    /\ Cardinality(ActiveTimers("arrivals")) = 1

\* C2: after the back button left the details view for the selection view, and
\* until a stop is searched or auto-loaded again, no arrivals interval is running.
C2_NoArrivalsTimerAfterBack == leftDetails => ActiveTimers("arrivals") = {}

\* C3: when the first refreshArrivals of an entry into the details view (search,
\* auto-load, return from the bus view) has settled, an arrivals interval for
\* that entry's stop is running.
C3_EntryStartsArrivalsTimer ==
    (ArrivalsSettled /\ lastRefresh.req.entry \in {"search", "view"})
        => \E t \in ActiveTimers("arrivals") : t.stop = lastRefresh.req.stop

\* C4: the stop an arrivals timer fire refreshes is the source stop selected in
\* the UI when the timer fires.
C4_FireUsesSelectedStop ==
    lastRefresh.kind = "fire" => lastRefresh.req.stop = selectedSourceStop

\* C5: no bus interval runs before init has gone past loadInitialData; from then
\* on, also after a failed load, exactly one runs, its handle is held in
\* busRefreshInterval, and the only step that changes the running bus intervals
\* is the one of init that starts the polling.
C5_BusPollingState ==
    /\ phase \in {"loading", "initBuses"} => ActiveTimers("bus") = {} /\ busRefreshInterval = 0
    /\ phase \notin {"loading", "initBuses"} =>
         /\ Cardinality(ActiveTimers("bus")) = 1
         /\ \A t \in ActiveTimers("bus") : t.h = busRefreshInterval

C5_BusPollingOnce ==
    /\ C5_BusPollingState
    /\ [][/\ C5_BusPollingState'
          /\ ActiveTimers("bus")' # ActiveTimers("bus")
               => phase \in {"loading", "initBuses"} /\ phase' = "running"]_vars

\* the load failed, the bus polling was started all the same and has fired
C5_Witness ==
    /\ phase = "running" /\ routes = <<>> /\ stops = <<>>
    /\ Cardinality(ActiveTimers("bus")) = 1
    /\ pendingBus > 0

\* C6: a bus refresh that resolves in the details view with a selected source
\* stop replaces the arrivals list by calculateETAs of the snapshot just stored,
\* that stop, the routes and the stored filter, and leaves the arrivals requests
\* in flight as they were.
C6_BusRefreshRecomputes ==
    [][(lastRefresh'.kind = "buses" /\ currentView = "details" /\ selectedSourceStop # NoStop)
          => /\ arrivalsList' = Shown(calculateETAs(buses', selectedSourceStop, routes,
                                                    getSelectedRoutes))
             /\ inflight' = inflight]_vars

\* a bus refresh has just pushed a filtered, non-empty list in the details view
C6_Witness ==
    /\ lastRefresh.kind = "buses"
    /\ currentView = "details" /\ selectedSourceStop # NoStop
    /\ Len(getSelectedRoutes) > 0
    /\ Len(arrivalsList.items) = 1 /\ Len(buses) = 2

\* C7 as stated: after a failed upstream fetch the pushed list is calculateETAs
\* on the snapshot, the routes and the filter stored at that moment.
C7_FallbackWithStoredFilter ==
    (ArrivalsSettled /\ lastRefresh.outcome.kind = "throw")
        => arrivalsList = Shown(calculateETAs(buses, lastRefresh.req.stop, routes,
                                              getSelectedRoutes))

\* C7 amended: after a failed upstream fetch the pushed list is calculateETAs on
\* the snapshot and routes of that moment and the filter that this invocation of
\* refreshArrivals read from storage when it started.
C7_FallbackWithInvocationFilter ==
    (ArrivalsSettled /\ lastRefresh.outcome.kind = "throw")
        => arrivalsList = Shown(calculateETAs(buses, lastRefresh.req.stop, routes,
                                              lastRefresh.req.sel))

\* the fetch failed while a filter was stored and the fallback list is not empty
C7_Witness ==
    /\ ArrivalsSettled /\ lastRefresh.outcome.kind = "throw"
    /\ Len(lastRefresh.req.sel) > 0
    /\ Len(arrivalsList.items) > 0

\* C8: after an empty or absent upstream result the pushed list is calculateETAs
\* on the snapshot (with the filter the invocation read) and every entry of it
\* is a computed one (it carries a distance).
EmptyResult(outcome) ==
    outcome.kind = "null" \/ (outcome.kind = "data" /\ Len(outcome.list) = 0)

C8_EmptyFallsBack ==
    (ArrivalsSettled /\ EmptyResult(lastRefresh.outcome))
        => /\ arrivalsList = Shown(calculateETAs(buses, lastRefresh.req.stop, routes,
                                                 lastRefresh.req.sel))
           /\ \A i \in 1..Len(arrivalsList.items) :
                "distance" \in DOMAIN arrivalsList.items[i]

\* the upstream answered with no body or with no arrivals and two buses are listed
C8_Witness ==
    /\ ArrivalsSettled /\ EmptyResult(lastRefresh.outcome)
    /\ Len(arrivalsList.items) = 2

\* C9: after a non-empty upstream result the pushed list holds, in upstream
\* order, exactly the upstream arrivals whose String(routeId) is in the filter
\* (all when it is empty), each with the colour of the first route whose
\* String(id) is the same (else the default colour) and with the upstream route
\* name, else that route's shortName/name, else "Route <id>".
C9_Expected(item, arrival, rts) ==
    LET matching == { i \in 1..Len(rts) : rts[i].id.s = arrival.routeId.s }
        first == CHOOSE i \in matching : \A j \in matching : i <= j
    IN /\ item.busId = arrival.busId /\ item.busName = arrival.busName
       /\ item.routeId = arrival.routeId /\ item.eta = arrival.eta
       /\ item.routeColor = IF matching = {} THEN "#4a90d9" ELSE rts[first].color
       /\ item.routeName = IF arrival.routeName # "" THEN arrival.routeName
                           ELSE IF matching = {} THEN "Route " \o arrival.routeId.s
                           ELSE IF rts[first].shortName # "" THEN rts[first].shortName
                           ELSE rts[first].name

C9_UpstreamFilteredAndEnriched ==
    (ArrivalsSettled /\ lastRefresh.outcome.kind = "data" /\ Len(lastRefresh.outcome.list) > 0)
        => LET up == lastRefresh.outcome.list
               sel == lastRefresh.req.sel
               kept == { i \in 1..Len(up) : sel = <<>> \/ up[i].routeId.s \in Range(sel) }
               items == arrivalsList.items
           IN /\ ~arrivalsList.loading
              /\ Len(items) = Cardinality(kept)
              /\ \E f \in [1..Len(items) -> kept] :
                   /\ \A a, b \in 1..Len(items) : a < b => f[a] < f[b]
                   /\ \A k \in 1..Len(items) : C9_Expected(items[k], up[f[k]], routes)

\* three upstream arrivals came back, the filter kept the one of route "5" and
\* it took the colour of the route whose id is the number 5
C9_Witness ==
    /\ ArrivalsSettled /\ Len(lastRefresh.outcome.list) = 3
    /\ lastRefresh.req.sel = <<"5">>
    /\ Len(arrivalsList.items) = 1
    /\ arrivalsList.items[1].routeColor = "#ff0000"

\* C10: every refreshArrivals whose upstream call settled has pushed a list to
\* the UI and let no error out.
C10_AlwaysPushes ==
    ArrivalsSettled => lastRefresh.pushed /\ ~lastRefresh.threw /\ ~arrivalsList.loading

\* the upstream call failed in the details view and a list replaced the spinner
C10_Witness ==
    /\ ArrivalsSettled /\ lastRefresh.outcome.kind = "throw"
    /\ lastRefresh.pushed /\ ~lastRefresh.threw
    /\ currentView = "details" /\ ~arrivalsList.loading

\* C26: when the upstream answers with a list that is not empty and none of
\* whose entries has its String(routeId) in the non-empty filter the invocation
\* read, the list pushed to the UI is empty, whatever calculateETAs would give
\* for the snapshot.
C26_NoneKept(list, sel) ==
    /\ Len(list) > 0 /\ Len(sel) > 0
    /\ \A i \in 1..Len(list) : ~Includes(sel, String(list[i].routeId))

C26_NoFallbackAfterFilter ==
    (/\ ArrivalsSettled /\ lastRefresh.outcome.kind = "data"
     /\ C26_NoneKept(lastRefresh.outcome.list, lastRefresh.req.sel))
        => /\ lastRefresh.pushed /\ ~lastRefresh.threw
           /\ arrivalsList = Shown(<<>>)

\* the upstream listed two arrivals of routes 7 and 9 under the filter "5",
\* and the snapshot holds a bus calculateETAs would have listed
C26_Witness ==
    /\ ArrivalsSettled /\ lastRefresh.outcome.list = <<ArrB, ArrC>>
    /\ lastRefresh.req.sel = <<"5">>
    /\ Len(calculateETAs(buses, lastRefresh.req.stop, routes, lastRefresh.req.sel)) > 0
    /\ arrivalsList = Shown(<<>>)

\* C27: a refreshBuses whose fetch resolves while the view is not "details" or
\* no source stop is selected makes the fetched list the snapshot and the
\* rendered buses (one marker per bus id of the list, carrying the last record
\* of that id) and leaves the arrival list, the view and the selected stop and
\* dropdown value as they were.
C27_Rendered(bs, markers) ==
    /\ DOMAIN markers = { bs[i].id : i \in 1..Len(bs) }
    /\ \A i \in 1..Len(bs) :
         (\A j \in (i + 1)..Len(bs) : bs[j].id # bs[i].id) => markers[bs[i].id].busData = bs[i]

C27_OutsideDetailsOnlyBuses ==
    [][(/\ lastRefresh'.kind = "buses"
        /\ ~(currentView = "details" /\ selectedSourceStop # NoStop))
          => /\ buses' = lastRefresh'.fetched
             /\ C27_Rendered(buses', busMarkers')
             /\ arrivalsList' = arrivalsList
             /\ currentView' = currentView
             /\ selectedSourceStop' = selectedSourceStop
             /\ sourceValue' = sourceValue]_vars

\* in the bus view, with a source stop selected, a refresh brought two buses
\* and the arrival list still is not the one computed from them
C27_Witness ==
    /\ lastRefresh.kind = "buses" /\ currentView = "busNav"
    /\ selectedSourceStop # NoStop
    /\ Len(buses) = 2 /\ DOMAIN busMarkers # {}
    /\ arrivalsList # Shown(calculateETAs(buses, selectedSourceStop, routes, getRouteFilter))

\* the stop the back button of the bus view returns to: the selected source
\* stop, else the saved default source when the stop list holds it
C30_BackTarget ==
    IF selectedSourceStop # NoStop THEN selectedSourceStop
    ELSE IF getDefaultSource # ""
              /\ \E i \in 1..Len(stops) : String(stops[i].id) = getDefaultSource
    THEN stops[CHOOSE i \in 1..Len(stops) :
                  /\ String(stops[i].id) = getDefaultSource
                  /\ \A j \in 1..(i - 1) : String(stops[j].id) # getDefaultSource]
    ELSE NoStop

\* the view is one of the three, and the back button goes from the bus view
\* to the details of C30_BackTarget with one refreshArrivals for it (to the
\* selection view when there is no such stop) and from the details view to
\* the selection view
C30_BackButtonRule ==
    /\ currentView \in {"selection", "details", "busNav"}
    /\ [][/\ currentView' \in {"selection", "details", "busNav"}
          /\ BackFromBusNav =>
                IF C30_BackTarget # NoStop
                THEN /\ currentView' = "details" /\ selectedSourceStop' = C30_BackTarget
                     /\ inflight' = inflight (+) SetToBag({[stop |-> C30_BackTarget,
                                                            sel |-> getSelectedRoutes,
                                                            entry |-> "view"]})
                ELSE currentView' = "selection" /\ inflight' = inflight
          /\ BackFromDetails => currentView' = "selection" /\ inflight' = inflight]_vars

\* C30: the view is always one of "selection", "details", "busNav"; the back
\* button follows the rule above; and whenever the view is "details" a source
\* stop is selected.
C30_DetailsHasSourceStop ==
    /\ C30_BackButtonRule
    /\ [](currentView = "details" => selectedSourceStop # NoStop)

\* C20: a fetch that never resolves holds up only its own refresh cycle: also
\* when a fetch that loadInitialData awaits hangs, init goes on to start the
\* bus timer, so that a bus interval is running sooner or later.
C20_BusTimerStartsAnyway == <>(ActiveTimers("bus") # {})

(***************************************************************************)
(* Properties of calculateETAs (SpecETA)                                   *)
(***************************************************************************)
\* C11: the list calculateETAs returns has at most 10 entries and their eta
\* never decreases from one entry to the next.
C11_AtMostTenSorted ==
    /\ Len(etaResult) <= 10
    /\ \A i, j \in 1..Len(etaResult) : i < j => etaResult[i].eta <= etaResult[j].eta

\* eleven buses went in unfiltered, ten came out, the last later than the first
C11_Witness ==
    /\ Len(etaBuses) = 11 /\ etaFilter = <<>>
    /\ Len(etaResult) = 10
    /\ etaResult[1].eta < etaResult[10].eta

\* C12 as stated: with an empty filter every route that has a bus in the input
\* has a bus in the output; with a non-empty filter no output bus has a
\* String(routeId) outside the filter.
C12_EveryRouteOrOnlyFiltered ==
    /\ etaFilter = <<>> =>
          \A i \in 1..Len(etaBuses) : \E k \in 1..Len(etaResult) :
              etaResult[k].routeId.s = etaBuses[i].routeId.s
    /\ etaFilter # <<>> =>
          \A k \in 1..Len(etaResult) : etaResult[k].routeId.s \in Range(etaFilter)

\* C12 amended: with an empty filter no bus is dropped for its route: the
\* output holds min(10, number of input buses) entries and, when the input
\* holds at most 10 buses, a bus of every route present in it; with a
\* non-empty filter no output bus has a String(routeId) outside the filter.
C12_AllRoutesUpToTruncation ==
    /\ etaFilter = <<>> =>
          /\ Len(etaResult) = (IF Len(etaBuses) < 10 THEN Len(etaBuses) ELSE 10)
          /\ Len(etaBuses) <= 10 =>
                \A i \in 1..Len(etaBuses) : \E k \in 1..Len(etaResult) :
                    etaResult[k].routeId.s = etaBuses[i].routeId.s
    /\ etaFilter # <<>> =>
          \A k \in 1..Len(etaResult) : etaResult[k].routeId.s \in Range(etaFilter)

\* the filter let the buses of route 9 through and held one of route "5" back
C12_Witness ==
    /\ etaFilter = <<"7", "9">>
    /\ \E i \in 1..Len(etaBuses) : etaBuses[i].routeId.s = "5"
    /\ \E k \in 1..Len(etaResult) : etaResult[k].routeId.s = "9"

\* C13: every entry calculateETAs returns, and every bus marker updateBuses
\* colours, carries the name (shortName, else name) and colour of a route whose
\* String(id) equals String(bus.routeId) when there is such a route, whatever
\* the types of the two ids, and "Route <id>" and #4a90d9 only when there is none.
C13_JoinedAs(routeId, name, color, checkName) ==
    LET matching == { i \in 1..Len(UpstreamRoutes) : UpstreamRoutes[i].id.s = routeId.s }
    IN IF matching = {}
       THEN (checkName => name = "Route " \o routeId.s) /\ color = "#4a90d9"
       ELSE \E i \in matching :
              /\ color = UpstreamRoutes[i].color
              /\ checkName => name = (IF UpstreamRoutes[i].shortName # ""
                                      THEN UpstreamRoutes[i].shortName
                                      ELSE UpstreamRoutes[i].name)

C13_JoinByStringId ==
    /\ \A k \in 1..Len(etaResult) :
          C13_JoinedAs(etaResult[k].routeId, etaResult[k].routeName,
                       etaResult[k].routeColor, TRUE)
    /\ \A i \in 1..Len(etaBuses) :
          C13_JoinedAs(etaBuses[i].routeId, "", busMarkerColor(UpstreamRoutes, etaBuses[i]), FALSE)

\* C14: every entry calculateETAs returns has eta = round(distance /
\* effectiveSpeed * 60), halves rounded up, where distance is the distance from
\* the bus to the stop and effectiveSpeed is max(1.6 * speed, 15) for a speed
\* above 0 and 20 otherwise; eta is never negative. (Distances in 0.1 km and
\* speeds in 0.1 km/h: x = 60 * distance / tenths, and eta = round(x) is
\* x - 1/2 < eta <= x + 1/2.)
C14_EffectiveTenths(speed) ==
    IF speed > 0 THEN (IF 16 * speed >= 150 THEN 16 * speed ELSE 150) ELSE 200

C14_EtaFormula ==
    \A k \in 1..Len(etaResult) :
        LET e == etaResult[k]
            tenths == C14_EffectiveTenths(e.speed)
        IN /\ \E i \in 1..Len(etaBuses) :
                LET b == etaBuses[i]
                    sq == (b.latitude - etaStop.latitude) * (b.latitude - etaStop.latitude)
                          + (b.longitude - etaStop.longitude) * (b.longitude - etaStop.longitude)
                IN /\ b.id = e.busId /\ b.speed = e.speed
                   /\ e.distance * e.distance <= sq
                   /\ sq < (e.distance + 1) * (e.distance + 1)
           /\ 120 * e.distance - tenths < 2 * e.eta * tenths
           /\ 2 * e.eta * tenths <= 120 * e.distance + tenths
           /\ e.eta >= 0

\* a bus crawling at speed 5 was given the floor of 15 km/h (5 km away: 20
\* minutes), a bus reporting a negative speed the fallback of 20 km/h (3 km: 9)
C14_Witness ==
    /\ \E k \in 1..Len(etaResult) :
          etaResult[k].speed = 5 /\ etaResult[k].distance = 50 /\ etaResult[k].eta = 20
    /\ \E k \in 1..Len(etaResult) :
          etaResult[k].speed < 0 /\ etaResult[k].distance = 30 /\ etaResult[k].eta = 9

\* C15: calculateETAs returns min(10, number of buses passing the filter)
\* entries; they come from distinct passing buses (no bus id occurs more often
\* in the output than among the passing input records); every passing bus left
\* out has an eta not smaller than any entry's; no bus in, no entry out.
C15_Passing ==
    { i \in 1..Len(etaBuses) :
        etaFilter = <<>> \/ etaBuses[i].routeId.s \in Range(etaFilter) }

C15_OnePerPassingBus ==
    LET ids == { etaBuses[i].id : i \in C15_Passing }
        inCount(x) == Cardinality({ i \in C15_Passing : etaBuses[i].id = x })
        outCount(x) == Cardinality({ k \in 1..Len(etaResult) : etaResult[k].busId = x })
    IN /\ Len(etaResult) = (IF Cardinality(C15_Passing) < 10 THEN Cardinality(C15_Passing) ELSE 10)
       /\ \A k \in 1..Len(etaResult) : etaResult[k].busId \in ids
       /\ \A x \in ids : outCount(x) <= inCount(x)
       /\ \A i \in C15_Passing :
             outCount(etaBuses[i].id) < inCount(etaBuses[i].id)
                => \A k \in 1..Len(etaResult) :
                      etaResult[k].eta <= etaOfBus(etaBuses[i], etaStop, UpstreamRoutes).eta
       /\ etaBuses = <<>> => etaResult = <<>>

\* eleven buses passed, the ten soonest were returned and they are of two kinds
C15_Witness ==
    /\ Cardinality(C15_Passing) = 11
    /\ Len(etaResult) = 10
    /\ etaResult[1].busId # etaResult[10].busId

(***************************************************************************)
(* Properties of getRoutes, getStops, getBuses (SpecNorm)                  *)
(***************************************************************************)
\* C16: getBuses on a keyed map whose values are bus records and arrays of bus
\* records returns, without an error, what it returns on the flat array of the
\* same records taken in key order.
RECURSIVE C16_RecordsInKeyOrder(_)
C16_RecordsInKeyOrder(items) ==
    IF items = <<>> THEN <<>>
    ELSE Head(items).recs \o C16_RecordsInKeyOrder(Tail(items))

C16_FlatEquivalent(items) ==
    LET recs == C16_RecordsInKeyOrder(items)
    IN Response("array", [i \in 1..Len(recs) |-> Rec(recs[i])])

C16_KeyedMapAsFlatArray ==
    (/\ normCall = "getBuses" /\ normResponse.shape = "map"
     /\ \A i \in 1..Len(normResponse.items) : normResponse.items[i].kind # "null")
        => /\ ~normResult.threw
           /\ normResult = getBuses(C16_FlatEquivalent(normResponse.items))
           /\ Len(normResult.value) = Len(C16_RecordsInKeyOrder(normResponse.items))

\* a keyed map of a single record and of an array of two gave the three buses
\* in key order
C16_Witness ==
    /\ normCall = "getBuses" /\ normResponse.shape = "map"
    /\ normResponse.items = <<Rec(RawBusA), List(<<RawBusB, RawBusA>>)>>
    /\ normResult = Returned(<<BusA, BusB, BusA>>)

\* C17: getRoutes, getStops and getBuses return the empty list, and throw
\* nothing, when the response is null, has no container, has a keyed map where
\* getRoutes expects an array, or holds a null where a record is expected.
C17_Malformed ==
    \/ normResponse.isNull
    \/ normResponse.shape = "absent"
    \/ normCall = "getRoutes" /\ normResponse.shape = "map"
    \/ \E i \in 1..Len(normResponse.items) : normResponse.items[i].kind = "null"

C17_MalformedGivesEmpty ==
    (normCall # "" /\ C17_Malformed) => normResult = Returned(<<>>)

(***************************************************************************)
(* Properties of parseRoutePoints (SpecParse)                              *)
(***************************************************************************)
\* C18: parseRoutePoints returns, in order, the pairs (part 2k-1, part 2k) of
\* the comma-separated parts of the string for which both parts parse as
\* numbers (start with a digit), as those numbers; a pair with a part that does
\* not parse is left out and the pairs after it stay as they were; a last part
\* without a partner is ignored; no string, or the empty one, gives <<>>.
C18_Commas(chars) == { i \in 1..Len(chars) : chars[i] = "," }

\* the m-th part: what lies between the (m-1)-th and the m-th comma
C18_Part(chars, m) ==
    LET before == { i \in C18_Commas(chars) :
                      Cardinality({ j \in C18_Commas(chars) : j <= i }) = m - 1 }
        after == { i \in C18_Commas(chars) :
                     Cardinality({ j \in C18_Commas(chars) : j <= i }) = m }
        from == IF before = {} THEN 1 ELSE (CHOOSE i \in before : TRUE) + 1
        to == IF after = {} THEN Len(chars) ELSE (CHOOSE i \in after : TRUE) - 1
    IN SubSeq(chars, from, to)

C18_Numeric(part) == part # <<>> /\ part[1] \in {"0", "1", "2", "3", "4", "5", "6", "7", "8", "9"}

C18_PairsInOrder ==
    LET chars == routePointsStr.chars
        pairs == (Cardinality(C18_Commas(chars)) + 1) \div 2
        good == { k \in 1..pairs : /\ C18_Numeric(C18_Part(chars, 2 * k - 1))
                                    /\ C18_Numeric(C18_Part(chars, 2 * k)) }
        rank(k) == Cardinality({ g \in good : g <= k })
    IN IF ~routePointsStr.present \/ chars = <<>>
       THEN routePoints = <<>>
       ELSE /\ Len(routePoints) = Cardinality(good)
            /\ \A k \in good :
                  routePoints[rank(k)] = << parseFloat(C18_Part(chars, 2 * k - 1)).v,
                                       parseFloat(C18_Part(chars, 2 * k)).v >>

\* "x,1,1,2": the pair (x, 1) was skipped and (1, 2) kept, not (1, 1)
C18_Witness ==
    /\ routePointsStr.chars = <<"x", ",", "1", ",", "1", ",", "2">>
    /\ routePoints = << <<1, 2>> >>

(***************************************************************************)
(* Properties of postRequest (SpecProxy)                                   *)
(***************************************************************************)
\* C19: a request is reported as failed (postRequest throws to its caller)
\* only when every one of the three proxies has been tried for that request.
C19_FailsOnlyAfterAllProxies ==
    \A r \in 1..Len(requests) :
        requests[r].state = "threw" => requests[r].tried = {0, 1, 2}

\* C24: for every postRequest call at most three fetches are made, however
\* many calls share currentProxyIndex, and when every fetch settles the call
\* ends: it returns or throws.
C24_AtMostThreeAttempts ==
    /\ [](\A r \in 1..Len(requests) : requests[r].attempts <= Len(CORS_PROXIES))
    /\ \A r \in 1..MaxRequests :
          (r <= Len(requests))
             ~> (r <= Len(requests) /\ requests[r].state \in {"returned", "threw"})

\* with another call made, a call failed on all three proxies and threw
C24_Witness ==
    /\ Len(requests) >= 2
    /\ \E r \in 1..Len(requests) : requests[r].attempts = 3 /\ requests[r].state = "threw"

\* C25: currentProxyIndex is always a valid index of CORS_PROXIES; a step
\* leaves it or adds one to it, and adds one only when an attempt failed and
\* its request went on to the next proxy; every attempt begun in a step runs
\* on the proxy the index then names, never on an earlier, abandoned one.
C25_IndexOnlyMovesOn ==
    /\ currentProxyIndex \in 0..(Len(CORS_PROXIES) - 1)
    /\ [][/\ currentProxyIndex' \in 0..(Len(CORS_PROXIES) - 1)
          /\ currentProxyIndex' \in {currentProxyIndex, currentProxyIndex + 1}
          /\ currentProxyIndex' # currentProxyIndex
               => \E r \in 1..Len(requests) :
                     /\ requests[r].state = "awaiting"
                     /\ requests'[r].attempts = requests[r].attempts + 1
          /\ \A r \in 1..Len(requests') :
                (r > Len(requests) \/ requests'[r].attempts # requests[r].attempts)
                  => /\ requests'[r].proxy = currentProxyIndex'
                     /\ requests'[r].proxy >= currentProxyIndex]_vars

\* the first two proxies were abandoned; a call made afterwards ran on the
\* third only, and returned
C25_Witness ==
    /\ currentProxyIndex = 2
    /\ \E r \in 1..Len(requests) : requests[r].tried = {2} /\ requests[r].state = "returned"

(***************************************************************************)
(* Storage and the settings panel on their own: the page has loaded routes *)
(* and stops; the item found in localStorage is any of StoredItems. The    *)
(* user opens the panel, checks and unchecks routes, picks a default stop, *)
(* saves or clears; Storage.saveSettings is also called directly with one  *)
(* key. setItem and removeItem may throw.                                  *)
(***************************************************************************)
StoredItems ==
    { Absent, EmptyText, Unparsable,
      Json([selectedRoutes |-> Array(<<"5">>), defaultSource |-> Text("1")]),
      Json([selectedRoutes |-> Array(<<"7">>), theme |-> Text("dark")]) }

\* the one-key objects saveSettings is called with
Updates ==
    { [selectedRoutes |-> Array(<<>>)], [selectedRoutes |-> Array(<<"5", "7">>)],
      [defaultSource |-> Text("2")], [defaultSource |-> Text("")],
      [defaultDest |-> Text("1")], [theme |-> Text("light")] }

InitSettings ==
    /\ settings = defaults
    /\ AppFresh
    /\ EtaIdle
    /\ NormIdle
    /\ ParseIdle
    /\ ProxyIdle
    /\ stored \in StoredItems
    /\ panel = ClosedPanel
    /\ storageCall = NoStorageCall

settingsFrame == UNCHANGED << appVars, mapVars, etaVars, normVars, parseVars, proxyVars >>

\* the settings button: openSettings
OpenSettings ==
    /\ panel' = populateSettingsPanel(stored, UpstreamRoutes, UpstreamStops)
    /\ storageCall' = NoStorageCall
    /\ UNCHANGED stored
    /\ settingsFrame

\* the close button: closeSettings
CloseSettings ==
    /\ panel.open
    /\ panel' = [panel EXCEPT !.open = FALSE]
    /\ storageCall' = NoStorageCall
    /\ UNCHANGED stored
    /\ settingsFrame

\* a route checkbox is clicked
ToggleRoute ==
    /\ panel.open
    /\ \E i \in 1..Len(panel.routeFilters) :
         panel' = [panel EXCEPT !.routeFilters[i].checked = ~panel.routeFilters[i].checked]
    /\ storageCall' = NoStorageCall
    /\ UNCHANGED stored
    /\ settingsFrame

\* the "select all" and "deselect all" buttons
SelectAllRoutes ==
    /\ panel.open
    /\ panel' = [panel EXCEPT !.routeFilters =
                    [i \in 1..Len(panel.routeFilters) |->
                        [panel.routeFilters[i] EXCEPT !.checked = TRUE]]]
    /\ storageCall' = NoStorageCall
    /\ UNCHANGED stored
    /\ settingsFrame

DeselectAllRoutes ==
    /\ panel.open
    /\ panel' = [panel EXCEPT !.routeFilters =
                    [i \in 1..Len(panel.routeFilters) |->
                        [panel.routeFilters[i] EXCEPT !.checked = FALSE]]]
    /\ storageCall' = NoStorageCall
    /\ UNCHANGED stored
    /\ settingsFrame

\* the default-source select of the panel changes
ChooseDefaultSource ==
    /\ panel.open
    /\ \E v \in dropdownOptions(UpstreamStops, <<>>) \cup {""} :
         /\ v # panel.defaultSource
         /\ panel' = [panel EXCEPT !.defaultSource = v]
    /\ storageCall' = NoStorageCall
    /\ UNCHANGED stored
    /\ settingsFrame

\* the save button: UI saveSettings (the page reload it schedules is not followed)
UISaveSettings ==
    /\ panel.open
    /\ \E throws \in BOOLEAN :
         LET res == uiSaveSettings(panel, stored, UpstreamRoutes, throws)
         IN /\ stored' = res.item
            /\ storageCall' = [kind |-> "uiSave", upd |-> NoObject,
                               before |-> getSettings(stored), ok |-> res.ok,
                               boxes |-> panel.routeFilters]
    /\ panel' = [panel EXCEPT !.open = FALSE]
    /\ settingsFrame

\* Storage.saveSettings(upd)
CallSaveSettings ==
    /\ \E upd \in Updates : \E throws \in BOOLEAN :
         LET res == saveSettings(stored, upd, throws)
         IN /\ stored' = res.item
            /\ storageCall' = [kind |-> "save", upd |-> upd, before |-> getSettings(stored),
                               ok |-> res.ok, boxes |-> <<>>]
    /\ UNCHANGED panel
    /\ settingsFrame

\* Storage.clearSettings()
CallClearSettings ==
    /\ \E throws \in BOOLEAN :
         LET res == clearSettings(stored, throws)
         IN /\ stored' = res.item
            /\ storageCall' = [kind |-> "clear", upd |-> NoObject,
                               before |-> getSettings(stored), ok |-> res.ok, boxes |-> <<>>]
    /\ UNCHANGED panel
    /\ settingsFrame

NextSettings ==
    \/ OpenSettings
    \/ CloseSettings
    \/ ToggleRoute
    \/ SelectAllRoutes
    \/ DeselectAllRoutes
    \/ ChooseDefaultSource
    \/ UISaveSettings
    \/ CallSaveSettings
    \/ CallClearSettings

SpecSettings == InitSettings /\ [][NextSettings]_vars

(***************************************************************************)
(* Properties of overlapping bus refreshes and of the map (SpecMap)        *)
(***************************************************************************)
\* the bus of the list bs a marker keyed k stands for: the last one of that id
C21_LastOfId(bs, k) ==
    bs[CHOOSE i \in 1..Len(bs) : bs[i].id = k /\ \A j \in 1..Len(bs) : bs[j].id = k => j <= i]

\* the snapshot and the markers are those of the list bs and of nothing else
C21_IsExactly(bs, snapshot, markers) ==
    /\ snapshot = bs
    /\ DOMAIN markers = { bs[i].id : i \in 1..Len(bs) }
    /\ \A k \in DOMAIN markers : markers[k].busData = C21_LastOfId(bs, k)

\* C21: whenever a refreshBuses invocation has completed, however many others
\* overlap it, the bus snapshot and the buses the map holds markers for are
\* exactly the list its fetch resolved with (nothing of the earlier snapshot
\* is kept); and a completion following a completion with the same list
\* leaves the snapshot, the markers and the arrival list as they were.
C21_LastResolvedWins ==
    /\ lastRefresh.kind = "buses" => C21_IsExactly(lastRefresh.fetched, buses, busMarkers)
    /\ [][/\ lastRefresh'.kind = "buses"
               => C21_IsExactly(lastRefresh'.fetched, buses', busMarkers')
          /\ ( /\ lastRefresh.kind = "buses" /\ lastRefresh'.kind = "buses"
               /\ lastRefresh'.fetched = lastRefresh.fetched )
             => /\ buses' = buses /\ busMarkers' = busMarkers
                /\ arrivalsList' = arrivalsList]_vars

\* an invocation completed in the details view while another still awaits its
\* fetch, and brought a single bus
C21_Witness ==
    /\ lastRefresh.kind = "buses" /\ lastRefresh.fetched = <<BusB>>
    /\ pendingBus = 1
    /\ currentView = "details"
    /\ Len(arrivalsList.items) = 1

\* route ids as routes, stops, buses and arrivals carry them
C22_RouteIds == { Num("5"), Str("5"), Num("7"), Str("7"), Num("9"), Num("50") }

C22_InFilter(filter, routeId) == \E i \in 1..Len(filter) : filter[i] = routeId.s

C28_MarkersFollowPayloadAndFilter ==
    /\ DOMAIN busMarkers = { buses[i].id : i \in 1..Len(buses) }
    /\ \A k \in DOMAIN busMarkers :
          busMarkers[k].onMap
            <=> \/ Len(visibleRoutes) = 0
                \/ \E i \in 1..Len(visibleRoutes) :
                      visibleRoutes[i] = String(busMarkers[k].routeId)

\* a filterByRoutes call with a filter that is not empty left one held marker
\* on the map and took another off it
C28_Witness ==
    /\ lastRefresh.kind = "filter" /\ Len(visibleRoutes) > 0
    /\ \E k, m \in DOMAIN busMarkers : busMarkers[k].onMap /\ ~busMarkers[m].onMap

(***************************************************************************)
(* Properties of Storage and of the settings panel (SpecSettings)          *)
(***************************************************************************)
\* C23: when the save button has stored the panel, the stored route filter
\* is empty exactly when every route checkbox was checked.
C23_EmptyOnlyWhenAllChecked ==
    (storageCall.kind = "uiSave" /\ storageCall.ok) =>
        ( selectedRoutesOf(stored) = <<>>
            <=> \A i \in 1..Len(storageCall.boxes) : storageCall.boxes[i].checked )

\* C29: after a saveSettings(upd) that succeeded, getSettings gives the value
\* of upd for its key and, for every other key but lastUpdated, what it gave
\* before the call; and whenever no item is stored, or the item is empty or
\* does not parse, getSettings gives the defaults.
C29_MergesKeyWise ==
    /\ (storageCall.kind = "save" /\ storageCall.ok) =>
          LET now == getSettings(stored)
          IN /\ DOMAIN now = DOMAIN storageCall.before \cup DOMAIN storageCall.upd
             /\ \A k \in DOMAIN storageCall.upd : now[k] = storageCall.upd[k]
             /\ \A k \in DOMAIN storageCall.before :
                   k \notin DOMAIN storageCall.upd \cup {"lastUpdated"}
                     => now[k] = storageCall.before[k]
    /\ stored.kind \in {"absent", "empty", "garbage"} =>
          /\ getSettings(stored) = storageDefaults
          /\ selectedRoutesOf(stored) = <<>> /\ defaultSourceOf(stored) = ""

\* the default source was saved while a route filter and a key the defaults
\* do not know were stored
C29_Witness ==
    /\ storageCall.kind = "save" /\ storageCall.ok
    /\ storageCall.upd = [defaultSource |-> Text("2")]
    /\ storageCall.before["selectedRoutes"] = Array(<<"7">>)
    /\ "theme" \in DOMAIN storageCall.before

====
